---- MODULE Spec2Model ----
(***************************************************************************)
(* Discord -> GitHub synchronisation and follow-up detection of            *)
(* mastra-triage: the discordSyncWorkflow (one collapsible sync comment    *)
(* per issue, cursor in the comment) and the githubIssueManagerWorkflow    *)
(* (the "status: needs follow up" label).                                  *)
(***************************************************************************)
EXTENDS Integers, Sequences, FiniteSets, TLC

VARIABLES
    repo,        \* repo[i]: issue i of the repository: its body and what its Discord link points to
    thread,      \* thread[i]: the Discord thread linked from issue i, oldest message first
    comments,    \* comments[i]: the GitHub comments of issue i, in listing (creation) order
    labels,      \* labels[i]: the label names on issue i
    updated,     \* the open issues, the most recently updated first
    now,         \* the wall clock, in minutes
    discordClientPromise,  \* the shared promise: "null", "pending", "ready" or "waiting"
    forum,       \* the forum posts, the issues made from them, the run of discordToGithubWorkflow
    probe,       \* the input handed to a function looked at on its own, and what it returned
    nextId,      \* the id GitHub gives the next comment created
    token,       \* the GitHub account whose personal access token the workflows use
    syncRun,     \* the discordSyncWorkflow run in progress
    fuRun,       \* the githubIssueManagerWorkflow run in progress
    count,       \* counters bounding what the world and the scheduler do
    overlap      \* the steps of two further sync runs that overlap on an issue

vars ==
    <<repo, thread, comments, labels, updated, now, discordClientPromise, forum, probe,
      nextId, token, syncRun, fuRun, count, overlap>>

----------------------------------------------------------------------------
\* Bounds of the model.
NumIssues == 2          \* issues in the repository
MaxPosts == 1           \* Discord messages posted to one thread during a behaviour
MaxNewComments == 1     \* comments people add to one issue during a behaviour
MaxSyncRuns == 2        \* runs of discordSyncWorkflow
MaxFuRuns == 1          \* runs of githubIssueManagerWorkflow
MaxRelayRuns == 2       \* runs of the earlier workflow, one after the other
MaxUpdates == 1         \* updates of the repository's other issues during a behaviour
MaxTicks == 2           \* advances of the clock during a behaviour
NumPosts == 2           \* posts in the Discord help forum
MaxForumRuns == 2       \* runs of discordToGithubWorkflow during a behaviour
MaxBodyLen == 8         \* symbols of an issue body handed to extractDiscordThreadId
MaxAge == 11520         \* minutes of age of a rendered message (eight days)
MaxCalls == 3           \* calls of getRepoLabels during a behaviour
NumWaiting == 10        \* other issues that wait for their author, in a large batch

\* Program constants.
FetchLimit == 100       \* thread.messages.fetch({ limit: 100 })
PerPage == 100          \* issues.listComments({ per_page: 100 })
IssuesPerPage == 100    \* issues.listForRepo({ labels: 'discord', per_page: 100, page })
BatchSize == 100        \* batchSize: z.number().default(100)
LabelsPerPage == 100    \* issues.listLabelsForRepo({ per_page: 100, page })
\* (The batch size passed as the concurrency.)
WholeBatchAtOnce == BatchSize
Concurrency == 10       \* .foreach(step, { concurrency: 10 })

Issues == 1..NumIssues

----------------------------------------------------------------------------
\* Sequences.
Last(s) == s[Len(s)]
Take(s, n) == SubSeq(s, 1, IF Len(s) < n THEN Len(s) ELSE n)
MinOf(S) == CHOOSE x \in S : \A y \in S : x <= y
MaxOf(S) == CHOOSE x \in S : \A y \in S : y <= x
\* (The elements of a finite set of numbers, the greatest first.)
Descending(S) ==
    IF S = {} THEN <<>>
    ELSE LET lo == MinOf(S)
             hi == MaxOf(S)
         IN SelectSeq([k \in 1..(hi - lo + 1) |-> hi - k + 1], LAMBDA x : x \in S)
\* The elements of a finite set of numbers, ascending.
Ascending(S) ==
    IF S = {} THEN <<>>
    ELSE LET lo == MinOf(S)
             hi == MaxOf(S)
         IN SelectSeq([k \in 1..(hi - lo + 1) |-> lo + k - 1], LAMBDA x : x \in S)
----------------------------------------------------------------------------
\* Discord side.  A message is its author, its content and its creation time
\* (createdAt, a minute of the clock); its id is its position in the thread
\* (snowflakes grow with creation time).
Outsider == [bot |-> FALSE, user |-> "reporter", content |-> "text", time |-> 0]
Teammate == [bot |-> FALSE, user |-> "dev", content |-> "text", time |-> 0]
BotPost == [bot |-> TRUE, user |-> "relay-bot", content |-> "text", time |-> 0]
Attachment == [bot |-> FALSE, user |-> "reporter", content |-> "", time |-> 0]
DiscordMessages == {Outsider, Teammate, BotPost, Attachment}

\* The guild roles of a Discord user.
RolesOf(user) ==
    CASE user = "dev" -> {"Mastra Team", "Contributor"}
      [] user = "relay-bot" -> {"Bots"}
      [] OTHER -> {"Community"}

\* member.roles.cache.some(role => role.name === 'Admin' || role.name === 'Mastra Team')
\* of the sync step, on the role names of the member.
RolesIncludeTeam(roles) == \E role \in roles : role = "Admin" \/ role = "Mastra Team"
HasTeamRole(user) == RolesIncludeTeam(RolesOf(user))

\* isTeamMember(member) of helpers/messages.ts: a member is null or has roles.
isTeamMember(member) ==
    IF member.null THEN FALSE
    ELSE LET hasTeamRole == \E role \in member.roles : role = "Core Team"
             hasAdminRole == \E role \in member.roles : role = "Admin"
         IN hasTeamRole \/ hasAdminRole

\* msg.content.length > 0 && !msg.author.bot
Eligible(msg) == msg.content # "" /\ ~msg.bot

\* thread.messages.fetch({ limit, after }): the ids of the page Discord returns,
\* in no particular order.  With a cursor it is the FetchLimit messages right
\* after it, without one the FetchLimit most recent messages.
MessagesFetch(th, after) ==
    LET n == Len(th) IN
    IF after # 0
    THEN {id \in 1..n : id > after /\ id <= after + FetchLimit}
    ELSE {id \in 1..n : id > n - FetchLimit}

----------------------------------------------------------------------------
\* GitHub side.  A comment body is plain text, or carries the
\* '<!-- DISCORD_SYNC:' marker; a marked body holds a JSON object or not.
NoLast == "absent"
TextBody ==
    [marker |-> FALSE, json |-> FALSE, version |-> 0, lastMessageId |-> 0,
     lastAuthorIsTeamMember |-> NoLast, hasMessages |-> FALSE, messages |-> <<>>,
     timeLabels |-> <<>>]
\* The tracker of the first format, <!-- DISCORD_SYNC: last_message_id=.., .. -->
PlainTrackerBody == [TextBody EXCEPT !.marker = TRUE]
\* The JSON tracker without a message log (version 1).
V1TrackerBody(lastId, lastAuthor) ==
    [TextBody EXCEPT !.marker = TRUE, !.json = TRUE, !.version = 1,
                     !.lastMessageId = lastId, !.lastAuthorIsTeamMember = lastAuthor]

Tri(b) == IF b THEN "true" ELSE "false"

\* SyncedMessage, from a Discord message.
SyncedMessage(id, msg) ==
    [id |-> id, author |-> msg.user, content |-> msg.content, timestamp |-> msg.time]

\* The relative-time label of a message that is so many minutes old:
\* "just now", "N minutes ago", "N hours ago", "yesterday", "N days ago", or
\* the month and day from a week on.
\* A label is its bucket, its number and its wording.
Label(bucket, n, one, many) == [bucket |-> bucket, n |-> n, text |-> IF n = 1 THEN one ELSE many]
\* (A renderer whose days bucket takes the seventh day too.)
RelativeTimeWithSeventhDay(minutes) ==
    LET hours == minutes \div 60
        days == hours \div 24
    IN
    IF minutes <= 0 THEN Label("now", 0, "just now", "just now")
    ELSE IF minutes < 60 THEN Label("minutes", minutes, "minute ago", "minutes ago")
    ELSE IF hours < 24 THEN Label("hours", hours, "hour ago", "hours ago")
    ELSE IF days <= 7 THEN Label("days", days, "yesterday", "days ago")
    ELSE Label("date", 0, "month day", "month day")
RelativeTime(minutes) ==
    LET hours == minutes \div 60
        days == hours \div 24
    IN
    IF minutes <= 0 THEN Label("now", 0, "just now", "just now")
    ELSE IF minutes < 60 THEN Label("minutes", minutes, "minute ago", "minutes ago")
    ELSE IF hours < 24 THEN Label("hours", hours, "hour ago", "hours ago")
    ELSE IF days < 7 THEN Label("days", days, "yesterday", "days ago")
    ELSE Label("date", 0, "month day", "month day")

\* createDiscordSyncComment(threadUrl, messages, lastAuthorIsTeamMember): the
\* embedded state, and one block per message under its relative-time label at
\* the time of rendering.
createDiscordSyncComment(messages, lastAuthor) ==
    [marker |-> TRUE, json |-> TRUE, version |-> 2,
     lastMessageId |-> IF messages = <<>> THEN 0 ELSE Last(messages).id,
     lastAuthorIsTeamMember |-> lastAuthor,
     hasMessages |-> TRUE, messages |-> messages,
     timeLabels |-> [n \in DOMAIN messages |-> RelativeTime(now - messages[n].timestamp)]]

\* parseSyncTrackerComment(body): found is FALSE for null.
NoSyncInfo ==
    [found |-> FALSE, lastMessageId |-> 0, lastAuthorIsTeamMember |-> NoLast,
     messages |-> <<>>]
\* (A parser that accepts the current version only.)
parseCurrentVersionOnly(body) ==
    IF ~(body.marker /\ body.json /\ body.hasMessages) THEN NoSyncInfo
    ELSE [found |-> TRUE, lastMessageId |-> body.lastMessageId,
          lastAuthorIsTeamMember |-> body.lastAuthorIsTeamMember,
          messages |-> body.messages]
parseSyncTrackerComment(body) ==
    IF ~(body.marker /\ body.json) THEN NoSyncInfo
    ELSE [found |-> TRUE, lastMessageId |-> body.lastMessageId,
          lastAuthorIsTeamMember |-> body.lastAuthorIsTeamMember,
          messages |-> IF body.hasMessages THEN body.messages ELSE <<>>]

\* comment.body?.includes('<!-- DISCORD_SYNC:')
HasMarker(c) == c.body.marker

\* comments.find(comment => comment.body?.includes('<!-- DISCORD_SYNC:')): the
\* index of the first comment with the marker, 0 when there is none.
FindSyncTracker(page) ==
    IF \E k \in DOMAIN page : HasMarker(page[k])
    THEN MinOf({k \in DOMAIN page : HasMarker(page[k])})
    ELSE 0

\* issues.listComments({ per_page: 100 }) with no page: the first page.
ListComments(i) == Take(comments[i], PerPage)

\* The static roster of organisation members (data/mastra-members.json).
Roster == {"maintainer", "triage-account"}
\* The accounts GITHUB_PERSONAL_ACCESS_TOKEN may belong to: a personal access
\* token is a user's, in the roster or not.
TokenUsers ==
    {[type |-> "User", login |-> "triage-account"], [type |-> "User", login |-> "sync-account"]}
\* getMemberByLogin(login) !== undefined
getMemberByLogin(login) == login \in Roster

\* An issue body is null or a text.  A text is a sequence of symbols: "U" is
\* the literal 'https://discord.com/channels/', "1" and "2" are digits, "/" is
\* the slash and "x" any other character.
Digits == {"1", "2"}
Symbols == {"U", "/", "x"} \cup Digits
NullText == [null |-> TRUE, text |-> <<>>]
Text(symbols) == [null |-> FALSE, text |-> symbols]
\* \d+ from position from: the length of the longest run of digits there.
DigitRun(text, from) ==
    IF from > Len(text) \/ text[from] \notin Digits THEN 0
    ELSE LET ends == {e \in from..Len(text) : \A p \in from..e : text[p] \in Digits}
         IN MaxOf(ends) - from + 1
\* (A lazy group (\d+?): the first digit only.)
FirstDigit(text, from) == SubSeq(text, from, from)
\* The group (\d+) at position from: greedy, the whole run of digits.
CaptureGroup(text, from) == SubSeq(text, from, from + DigitRun(text, from) - 1)
\* /https:\/\/discord\.com\/channels\/\d+\/(\d+)/ tried at position s: the
\* literal, the guild digits (as many as possible, fewer on backtracking),
\* the slash, the group.  The position of the group, 0 when there is no match.
MatchAt(text, s) ==
    IF text[s] # "U" THEN 0
    ELSE LET guild == {n \in 1..DigitRun(text, s + 1) :
                          /\ s + n + 1 <= Len(text) /\ text[s + n + 1] = "/"
                          /\ DigitRun(text, s + n + 2) >= 1}
         IN IF guild = {} THEN 0 ELSE s + MaxOf(guild) + 2
\* issueBody.match(discordUrlRegex): the leftmost match.
\* extractThreadId(issueBody): the group of the match, <<>> for null.
extractThreadId(issueBody) ==
    IF issueBody.null \/ issueBody.text = <<>> THEN <<>>
    ELSE LET text == issueBody.text
             starts == {s \in DOMAIN text : MatchAt(text, s) # 0}
         IN IF starts = {} THEN <<>> ELSE CaptureGroup(text, MatchAt(text, MinOf(starts)))

\* The bodies of the issues of the model: "link" is a text with the URL of the
\* issue's own thread, "text" a text without one.
BodyText(body) ==
    CASE body = "link" -> Text(<<"x", "U", "1", "/", "2", "x">>)
      [] body = "text" -> Text(<<"x">>)
      [] OTHER -> NullText
\* The match of each body of the model, computed once.
MatchOfBody == [body \in {"link", "text", "null"} |-> extractThreadId(BodyText(body))]
\* (A resolver that takes any text for a link.)
AnyTextThreadId(body, i) == IF body # "null" THEN i ELSE 0
\* extractDiscordThreadId(issueBody) for the body of issue i: the id of thread
\* i, 0 for null.
extractDiscordThreadId(body, i) == IF MatchOfBody[body] # <<>> THEN i ELSE 0

----------------------------------------------------------------------------
\* syncIssueMessagesStep.execute for issue i, where the external call named by
\* fail (if the step gets to make it) rejects.  The value has the step's
\* result, the comment write it made and the calls it made.
SyncCalls == {"client", "channel", "listComments", "messages", "member", "write"}
SyncFails == SyncCalls \cup {"none"}

\* (A step that acquires the Discord client before its try block.)
InOuterTryAfterClient(call) == call \in SyncCalls \ {"client"}
\* (A step whose try block opens after the Discord calls.)
InOuterTryFromComments(call) == call \in {"listComments", "messages", "member", "write"}
\* The calls inside the step's outer try block (everything after the thread id
\* is resolved).
InOuterTry(call) == call \in SyncCalls
\* The member lookup has a try block of its own, which only logs.
InMemberTry(call) == call = "member"

NoWrite == [kind |-> "none", commentId |-> 0, body |-> TextBody]

\* (A step that fetches from the thread start whatever the tracker says.)
FetchFromStart(lastSyncedMessageId) == 0
\* if (lastSyncedMessageId) fetchOptions.after = lastSyncedMessageId (0: no after)
FetchAfter(lastSyncedMessageId) == lastSyncedMessageId
\* (A step that writes the comment only when the run has new messages.)
SyncCommentNeededOnNew(allMessages, newMessages) == newMessages # <<>>
\* if (allMessages.length > 0): update or create the single sync comment.
SyncCommentNeeded(allMessages, newMessages) == allMessages # <<>>
\* (A count of the whole log.)
MessagesInLog(allMessages, newMessages) == Len(allMessages)
\* messagesSynced: newMessages.length
MessagesSynced(allMessages, newMessages) == Len(newMessages)

\* (The step on the page of comments and the thread as it read them.)
syncIssueMessagesStepOn(i, page, th, fail) ==
    LET threadId == extractDiscordThreadId(repo[i].body, i)
        Result(has, tid, n, ok, err) ==
            [issueNumber |-> i, hasDiscordThread |-> has, threadId |-> tid,
             messagesSynced |-> n, success |-> ok, error |-> err]
        Out(res, write, calls, failed, threw) ==
            [result |-> res, write |-> write, calls |-> calls, failed |-> failed,
             threw |-> threw]
        \* A call that rejects: the catch block's result, or the exception itself.
        Reject(call, calls) ==
            Out(Result(TRUE, threadId, 0, FALSE, "rejected"), NoWrite, calls, call,
                ~InOuterTry(call))
        k == FindSyncTracker(page)
        syncInfo == IF k = 0 THEN NoSyncInfo ELSE parseSyncTrackerComment(page[k].body)
        lastSyncedMessageId == syncInfo.lastMessageId
        syncTrackerCommentId == IF syncInfo.found THEN page[k].id ELSE 0
        previousAuthorIsTeamMember == syncInfo.lastAuthorIsTeamMember
        existingMessages == syncInfo.messages
        fetched == MessagesFetch(th, FetchAfter(lastSyncedMessageId))
        newIds == Ascending({id \in fetched : Eligible(th[id])})
        newMessages == [n \in 1..Len(newIds) |-> SyncedMessage(newIds[n], th[newIds[n]])]
        allMessages == existingMessages \o newMessages
        memberCalled == newIds # <<>>
        memberFailed == memberCalled /\ fail = "member"
        lastAuthorIsTeamMember ==
            IF ~memberCalled \/ (memberFailed /\ InMemberTry("member"))
            THEN previousAuthorIsTeamMember
            ELSE Tri(HasTeamRole(th[Last(newIds)].user))
        body == createDiscordSyncComment(allMessages, lastAuthorIsTeamMember)
        write ==
            IF ~SyncCommentNeeded(allMessages, newMessages) THEN NoWrite
            ELSE IF syncTrackerCommentId # 0
                 THEN [kind |-> "update", commentId |-> syncTrackerCommentId, body |-> body]
                 ELSE [kind |-> "create", commentId |-> 0, body |-> body]
        upToFetch == {"client", "channel", "listComments", "messages"}
        upToMember == upToFetch \cup (IF memberCalled THEN {"member"} ELSE {})
        allCalls == upToMember \cup (IF write.kind # "none" THEN {"write"} ELSE {})
    IN
    IF threadId = 0
    THEN Out(Result(FALSE, 0, 0, TRUE, "null"), NoWrite, {}, "none", FALSE)
    ELSE IF fail = "client" THEN Reject("client", {"client"})
    ELSE IF fail = "channel" THEN Reject("channel", {"client", "channel"})
    ELSE IF ~repo[i].isThread
    THEN Out(Result(TRUE, threadId, 0, FALSE, "not a thread"), NoWrite,
             {"client", "channel"}, "none", FALSE)
    ELSE IF fail = "listComments" THEN Reject("listComments", {"client", "channel", "listComments"})
    ELSE IF fail = "messages" THEN Reject("messages", upToFetch)
    ELSE IF memberFailed /\ ~InMemberTry("member") THEN Reject("member", upToMember)
    ELSE IF fail = "write" /\ write.kind # "none" THEN Reject("write", allCalls)
    ELSE Out(Result(TRUE, threadId, MessagesSynced(allMessages, newMessages), TRUE, "null"),
             write, allCalls,
             IF memberFailed THEN "member" ELSE "none", FALSE)
syncIssueMessagesStep(i, fail) == syncIssueMessagesStepOn(i, ListComments(i), thread[i], fail)

\* What the step does to the comments of issue i.
ApplyWrite(cs, write, id) ==
    CASE write.kind = "create" ->
           Append(cs, [id |-> id, user |-> token, body |-> write.body])
      [] write.kind = "update" ->
           [n \in DOMAIN cs |->
              IF cs[n].id = write.commentId THEN [cs[n] EXCEPT !.body = write.body]
              ELSE cs[n]]
      [] OTHER -> cs

----------------------------------------------------------------------------
\* checkCommentAuthorStep.execute for issue i, where the call named by fail
\* (if made) rejects.
FollowUpLabel == "status: needs follow up"
NoLogin == ""
Maintainer == [type |-> "User", login |-> "maintainer"]
Reporter == [type |-> "User", login |-> "reporter"]
AppBot == [type |-> "Bot", login |-> "ci-app"]
DeletedUser == [type |-> "none", login |-> NoLogin]
CommentAuthors == {Maintainer, Reporter, AppBot, DeletedUser}

CheckFails == {"none", "listComments", "addLabels"}

\* comments.filter(comment => comment.user?.type !== 'Bot')
HumanComments(page) == SelectSeq(page, LAMBDA c : c.user.type # "Bot")
\* lastComment.user?.login || null
LastAuthor(page) ==
    IF HumanComments(page) = <<>> THEN NoLogin ELSE Last(HumanComments(page)).user.login
\* Check 1: the last GitHub comment's author.
GithubCommentIndicatesNonMember(page) ==
    LastAuthor(page) # NoLogin /\ ~getMemberByLogin(LastAuthor(page))
\* (A check that takes every value but true for a non-member.)
NotKnownMember(syncInfo) == syncInfo.found /\ syncInfo.lastAuthorIsTeamMember # "true"
\* syncInfo && syncInfo.lastAuthorIsTeamMember === false
ExplicitlyFalse(syncInfo) == syncInfo.found /\ syncInfo.lastAuthorIsTeamMember = "false"
\* Check 2: the sync tracker's record of the last Discord author.
SyncTrackerIndicatesNonMember(page) ==
    LET k == FindSyncTracker(page) IN
    k # 0 /\ ExplicitlyFalse(parseSyncTrackerComment(page[k].body))
\* (A reason chain that tests the single signals first.)
LabelReasonFirstMatch(gh, st) ==
    IF gh THEN "github_comment" ELSE IF st THEN "sync_tracker" ELSE "none"
\* The label reason, from the two checks.
LabelReason(gh, st) ==
    IF gh /\ st THEN "both"
    ELSE IF gh THEN "github_comment"
    ELSE IF st THEN "sync_tracker"
    ELSE "none"
\* (A guard on the GitHub check alone.)
ShouldAddLabelOnGithub(gh, st) == gh
\* if (githubCommentIndicatesNonMember || syncTrackerIndicatesNonMember)
ShouldAddLabel(gh, st) == gh \/ st
\* (A call that replaces the labels of the issue.)
SetLabels(ls, new) == new
\* issues.addLabels({ labels: ['status: needs follow up'] })
AddLabels(ls, new) == ls \cup new

\* (A step whose try block opens after the listing.)
InCheckTryAfterListing(call) == call = "addLabels"
\* The calls inside the step's try blocks: the listing in the outer one, the
\* label-add in its own.
InCheckTry(call) == call \in {"listComments", "addLabels"}

checkCommentAuthorStep(i, fail) ==
    LET page == ListComments(i)
        gh == GithubCommentIndicatesNonMember(page)
        st == SyncTrackerIndicatesNonMember(page)
        Out(needs, author, added, reason, called, g, t) ==
            [needsFollowUp |-> needs, lastCommentAuthor |-> author, labelAdded |-> added,
             labelReason |-> reason, addLabelsCalled |-> called,
             listed |-> fail # "listComments", github |-> g, tracker |-> t,
             threw |-> fail # "none" /\ ~InCheckTry(fail)]
    IN
    IF fail = "listComments" THEN Out(FALSE, NoLogin, FALSE, "none", FALSE, FALSE, FALSE)
    ELSE IF ShouldAddLabel(gh, st)
    THEN Out(TRUE, LastAuthor(page), fail # "addLabels", LabelReason(gh, st), TRUE, gh, st)
    ELSE Out(FALSE, LastAuthor(page), FALSE, "none", FALSE, gh, st)

----------------------------------------------------------------------------
\* The two workflows: fetch the working set, run the step for each issue
\* (.foreach), aggregate.
StatusLabels == {"status: waiting for author", "status: needs reproduction"}
Range(s) == {s[k] : k \in DOMAIN s}

\* An update of issue i sets its updated_at to now: the issue becomes the first
\* of the open issues sorted by 'updated', descending.
Touch(order, i) == <<i>> \o SelectSeq(order, LAMBDA e : e # i)

\* issues.listForRepo({ labels: label, state: 'open', sort: 'updated',
\* direction: 'desc' }), every page.
ListForRepo(label) == SelectSeq(updated, LAMBDA i : repo[i].open /\ label \in labels[i])

\* fetchDiscordLabeledIssuesStep, then the .map that keeps the issues with a
\* required status label.
HasRequiredLabel(i) == labels[i] \cap StatusLabels # {}
SyncWorkingSet == SelectSeq(ListForRepo("discord"), HasRequiredLabel)

\* new Map(allIssues.map(issue => [issue.number, issue])).values()
RECURSIVE UniqueIssues(_)
UniqueIssues(list) ==
    IF list = <<>> THEN <<>>
    ELSE LET front == UniqueIssues(SubSeq(list, 1, Len(list) - 1)) IN
         IF Last(list) \in Range(front) THEN front ELSE Append(front, Last(list))

\* fetchWaitingIssuesStep: one listing per status label (first page of batchSize).
FollowUpWorkingSet ==
    UniqueIssues(Take(ListForRepo("status: waiting for author"), BatchSize)
                 \o Take(ListForRepo("status: needs reproduction"), BatchSize))

\* A run: todo are the items of work whose step has not returned yet, active
\* those of them whose step has started.
IdleRun == [pc |-> "idle", work |-> <<>>, todo |-> {}, active |-> {}, results |-> <<>>]
StartedRun(work, pending) ==
    [pc |-> "running", work |-> work, todo |-> DOMAIN work, active |-> {},
     results |-> [k \in DOMAIN work |-> pending]]
\* A run of the sync workflow also records, for comparison, what each issue's
\* step returns when no call rejects, as of the start of the run, and which
\* Discord client promise each step got from getDiscordClient (0: none yet; the
\* promises are numbered as createDiscordClient makes them).
IdleSync == IdleRun @@ [expected |-> <<>>, client |-> <<>>]

\* A result of syncIssueMessagesStep not yet there.  Next to the step's
\* output, a result records which call rejected and which write was made.
PendingSync ==
    [issueNumber |-> 0, hasDiscordThread |-> FALSE, threadId |-> 0, messagesSynced |-> 0,
     success |-> FALSE, error |-> "pending", failed |-> "none", wrote |-> "none",
     calls |-> {}]
\* A result of processIssueWorkflow not yet there.  Next to the workflow's
\* output, a result records what checkCommentAuthorStep returned and did.
PendingCheck ==
    [issueNumber |-> 0, labelAdded |-> FALSE, labelReason |-> "pending", success |-> FALSE,
     needsFollowUp |-> FALSE, addLabelsCalled |-> FALSE, listed |-> FALSE,
     github |-> FALSE, tracker |-> FALSE, threw |-> FALSE]

RECURSIVE SumSynced(_)
SumSynced(results) ==
    IF results = <<>> THEN 0
    ELSE SumSynced(SubSeq(results, 1, Len(results) - 1)) + Last(results).messagesSynced

\* (An aggregate that reports success whatever the errors, as the earlier
\* workflow's does.)
SyncSummaryAlwaysSuccess(results) ==
    [issuesProcessed |-> Len(results),
     issuesWithThreads |-> Len(SelectSeq(results, LAMBDA r : r.hasDiscordThread)),
     messagesSynced |-> SumSynced(results),
     issuesSkipped |-> Len(SelectSeq(results, LAMBDA r : ~r.hasDiscordThread)),
     errors |-> Len(SelectSeq(results, LAMBDA r : ~r.success)),
     success |-> TRUE]
\* (An aggregate whose issuesWithThreads counts the threads that were synced.)
SyncSummaryOfSyncedThreads(results) ==
    LET errors == Len(SelectSeq(results, LAMBDA r : ~r.success)) IN
    [issuesProcessed |-> Len(results),
     issuesWithThreads |-> Len(SelectSeq(results, LAMBDA r : r.hasDiscordThread /\ r.success)),
     messagesSynced |-> SumSynced(results),
     issuesSkipped |-> Len(SelectSeq(results, LAMBDA r : ~r.hasDiscordThread)),
     errors |-> errors,
     success |-> errors = 0]
\* The .map after .foreach(syncIssueMessagesStep).
SyncSummary(results) ==
    LET errors == Len(SelectSeq(results, LAMBDA r : ~r.success)) IN
    [issuesProcessed |-> Len(results),
     issuesWithThreads |-> Len(SelectSeq(results, LAMBDA r : r.hasDiscordThread)),
     messagesSynced |-> SumSynced(results),
     issuesSkipped |-> Len(SelectSeq(results, LAMBDA r : ~r.hasDiscordThread)),
     errors |-> errors,
     success |-> errors = 0]
\* The .map after .foreach(processIssueWorkflow).
FollowUpSummary(results) ==
    [issuesProcessed |-> Len(results),
     labelsAdded |-> Len(SelectSeq(results, LAMBDA r : r.labelAdded)),
     success |-> TRUE]

----------------------------------------------------------------------------
\* Initial states: the repository before the first run of the sync workflow.
\* An issue may already have many comments and a long thread, and a tracker
\* comment left by the earlier versions of the sync (plain format, or JSON
\* without a message log).
Filler(n, x) == [k \in 1..n |-> x]
Linked == [open |-> TRUE, body |-> "link", isThread |-> TRUE]
Stale == [open |-> TRUE, body |-> "link", isThread |-> FALSE]
Unlinked == [open |-> TRUE, body |-> "text", isThread |-> FALSE]
NullBody == [open |-> TRUE, body |-> "null", isThread |-> FALSE]
Closed == [open |-> FALSE, body |-> "link", isThread |-> TRUE]

InitialComments(base, tracker) ==
    [k \in 1..base |-> [id |-> k, user |-> Maintainer, body |-> TextBody]]
    \o (CASE tracker = "plain" ->
                <<[id |-> base + 1, user |-> Maintainer, body |-> PlainTrackerBody]>>
           [] tracker = "v1" ->
                <<[id |-> base + 1, user |-> Maintainer, body |-> V1TrackerBody(1, NoLast)]>>
           [] tracker = "v1 false" ->
                <<[id |-> base + 1, user |-> Maintainer, body |-> V1TrackerBody(1, "false")]>>
           [] OTHER -> <<>>)

\* The shapes an issue starts in: [issue, thread, comments, labels].
Shape(issue, th, cs, ls) == [issue |-> issue, thread |-> th, comments |-> cs, labels |-> ls]
WaitingLabels == {"discord", "status: waiting for author"}
ClosedShape == Shape(Closed, <<>>, <<>>, {"discord"})

\* Two further runs of discordSyncWorkflow, started while another is under
\* way: of each, the step on one issue, which has not started ("idle"), has
\* the page of listComments ("listed"), has the messages and its comment body
\* ("fetched") or has returned ("done").
OverlapRuns == {"second", "third"}
IdleStep == [pc |-> "idle", issue |-> 0, page |-> <<>>, write |-> NoWrite, success |-> FALSE]
\* No body has been handed to extractDiscordThreadId.
NoProbe == [body |-> NullText, called |-> FALSE, value |-> <<>>]
\* No forum post, and discordToGithubWorkflow not running.
QuietForum == [tags |-> <<>>, issues |-> <<>>, runs |-> 0, run |-> IdleRun]
\* The repository holds the issues of shape, last updated in the given order;
\* the workflows are not running.
InitWith(shape, order, tokens, client, f, p) ==
    /\ repo = [i \in DOMAIN shape |-> shape[i].issue]
    /\ thread = [i \in DOMAIN shape |-> shape[i].thread]
    /\ comments = [i \in DOMAIN shape |-> shape[i].comments]
    /\ labels = [i \in DOMAIN shape |-> shape[i].labels]
    /\ updated = order
    /\ now = 0
    /\ discordClientPromise = client
    /\ forum = f
    /\ probe = p
    /\ nextId = PerPage + 2
    /\ token \in tokens
    /\ syncRun = IdleSync
    /\ fuRun = IdleRun
    /\ count = [posts |-> [i \in Issues |-> 0], added |-> [i \in Issues |-> 0],
                syncRuns |-> 0, fuRuns |-> 0, updates |-> 0, ticks |-> 0, clients |-> 0]
    /\ overlap = [r \in OverlapRuns |-> IdleStep]
InitWithClient(shape, order, tokens, client) ==
    InitWith(shape, order, tokens, client, QuietForum, NoProbe)
\* The process has logged in to Discord before.
InitRepo(shape, order, tokens) == InitWithClient(shape, order, tokens, "ready")
\* Every issue of the repository is closed: the forum and the probe on their own.
InitIdle(f, p) ==
    InitWith([i \in Issues |-> ClosedShape], <<>>,
             {CHOOSE t \in TokenUsers : getMemberByLogin(t.login)}, "ready", f, p)
InitShapes(shape, tokens) ==
    InitRepo(shape, Ascending({i \in DOMAIN shape : shape[i].issue.open}), tokens)
\* Issue 1 in one of the shapes, the other issues closed.
InitOne(shapes, tokens) ==
    \E s \in shapes : InitShapes([i \in Issues |-> IF i = 1 THEN s ELSE ClosedShape], tokens)

\* A linked issue that was never synced.
FreshShapes ==
    {Shape(Linked, Filler(tb, Outsider), <<>>, WaitingLabels) : tb \in {0, 1}}
Init == InitOne(FreshShapes, TokenUsers)

\* The issues the sync workflow may meet: long threads, long comment
\* histories, a tracker in the plain format, a stale or missing link.
InitDeep ==
    InitOne(
    {Shape(Linked, Filler(tb, Outsider), InitialComments(cb, tr), WaitingLabels) :
        tb \in {0, 1, FetchLimit + 1}, cb \in {0, PerPage}, tr \in {"none", "plain"}}
    \cup {Shape(k, <<>>, <<>>, WaitingLabels) : k \in {Stale, Unlinked, NullBody}},
    {CHOOSE t \in TokenUsers : getMemberByLogin(t.login)})

\* The issues the follow-up workflow may meet: the thread has its messages,
\* the comments may hold a tracker of any earlier format.
FollowUpShapes ==
    {Shape(Linked, <<m>>, InitialComments(cb, tr), WaitingLabels) :
        m \in {Outsider, Teammate}, cb \in {0, PerPage - 1},
        tr \in {"none", "plain", "v1", "v1 false"}}
InitFollowUp == InitOne(FollowUpShapes, TokenUsers)

\* A batch of open issues of several kinds.
BatchShapes ==
    {Shape(Linked, <<Outsider>>, <<>>, WaitingLabels),
     Shape(Linked, <<Outsider, Teammate>>, InitialComments(0, "v1"),
           {"discord", "status: needs reproduction"}),
     Shape(Stale, <<>>, <<>>, WaitingLabels),
     Shape(Unlinked, <<>>, <<>>, WaitingLabels \cup {"status: needs reproduction"})}
InitBatch ==
    \E shape \in [Issues -> BatchShapes] :
        InitShapes(shape, {CHOOSE t \in TokenUsers : getMemberByLogin(t.login)})

\* The other open issues of a larger repository, n of them: no Discord link,
\* no comments.
Others(n) == (NumIssues + 1)..(NumIssues + n)
OtherShape(ls) == Shape(NullBody, <<>>, <<>>, ls)
\* Issue 1 in shape s among n other issues with labels ls.
Among(s, n, ls) ==
    [i \in Issues \cup Others(n) |->
        IF i = 1 THEN s ELSE IF i \in Issues THEN ClosedShape ELSE OtherShape(ls)]
\* The n other issues by update time, issue 1 at position pos among them.
OrderWith(n, pos) ==
    LET others == [k \in 1..n |-> NumIssues + k] IN
    SubSeq(others, 1, pos - 1) \o <<1>> \o SubSeq(others, pos, n)

\* More open 'discord' issues than one page of the listing holds: issue 1 and
\* a page of issues without a status label.
InitPaged ==
    \E s \in FreshShapes, pos \in {1, IssuesPerPage, IssuesPerPage + 1} :
        InitRepo(Among(s, IssuesPerPage, {"discord"}), OrderWith(IssuesPerPage, pos),
                 {CHOOSE t \in TokenUsers : getMemberByLogin(t.login)})

----------------------------------------------------------------------------
\* The world: people post in the Discord thread and comment on the issue.
PostMessage(i, msg) ==
    /\ repo[i].open /\ repo[i].isThread
    /\ count.posts[i] < MaxPosts
    /\ thread' = [thread EXCEPT ![i] = Append(@, [msg EXCEPT !.time = now])]
    /\ count' = [count EXCEPT !.posts[i] = @ + 1]
    /\ UNCHANGED <<repo, probe, forum, discordClientPromise, now, updated, token, comments,
                   labels, nextId, syncRun, fuRun, overlap>>

AddComment(i, user) ==
    /\ repo[i].open
    /\ count.added[i] < MaxNewComments
    /\ comments' = [comments EXCEPT ![i] = Append(@, [id |-> nextId, user |-> user, body |-> TextBody])]
    /\ nextId' = nextId + 1
    /\ count' = [count EXCEPT !.added[i] = @ + 1]
    /\ updated' = Touch(updated, i)
    /\ UNCHANGED <<repo, probe, forum, discordClientPromise, now, token, thread, labels,
                   syncRun, fuRun, overlap>>

\* Someone, or another workflow, takes a status label off an open issue.
RemoveLabel(i, label) ==
    /\ repo[i].open
    /\ label \in labels[i] \cap StatusLabels
    /\ labels' = [labels EXCEPT ![i] = @ \ {label}]
    /\ updated' = Touch(updated, i)
    /\ UNCHANGED <<repo, probe, forum, discordClientPromise, now, token, thread, comments,
                   nextId, syncRun, fuRun, count, overlap>>

\* discordSyncWorkflow.
SyncStart ==
    /\ syncRun.pc \in {"idle", "done", "failed"}
    /\ count.syncRuns < MaxSyncRuns
    /\ syncRun' = StartedRun(SyncWorkingSet, PendingSync) @@
                   [expected |-> [k \in DOMAIN SyncWorkingSet |->
                                    syncIssueMessagesStep(SyncWorkingSet[k], "none").result],
                    client |-> [k \in DOMAIN SyncWorkingSet |-> 0]]
    /\ count' = [count EXCEPT !.syncRuns = @ + 1]
    /\ UNCHANGED <<repo, probe, forum, discordClientPromise, now, updated, token, thread,
                   comments, labels, nextId, fuRun, overlap>>

\* (A getDiscordClient that makes a client for every caller.)
MakesClientAlways(promise) == TRUE
\* if (!discordClientPromise) of getDiscordClient.
MakesClient(promise) == promise = "null"
\* getDiscordClient, called by the step of item k at the start of its try
\* block: the test and the assignment of the promise of createDiscordClient
\* come without an await between them.  The step gets the promise.
getDiscordClient(k) ==
    /\ syncRun.pc = "running"
    /\ k \in syncRun.active /\ syncRun.client[k] = 0
    /\ extractDiscordThreadId(repo[syncRun.work[k]].body, syncRun.work[k]) # 0
    /\ LET makes == MakesClient(discordClientPromise)
           made == IF makes THEN count.clients + 1 ELSE count.clients
       IN /\ discordClientPromise' = IF makes THEN "pending" ELSE discordClientPromise
          /\ count' = [count EXCEPT !.clients = made]
          /\ syncRun' = [syncRun EXCEPT !.client[k] = made]
    /\ UNCHANGED <<repo, probe, forum, now, updated, token, thread, comments, labels, nextId,
                   fuRun, overlap>>
\* createDiscordClient, started by getDiscordClient, goes on: without
\* DISCORD_BOT_TOKEN, or when login rejects (the rejection is caught and
\* logged), the client is not ready and the function waits for a 'ready' event.
createDiscordClient(botToken, login) ==
    /\ discordClientPromise = "pending"
    /\ discordClientPromise' = IF botToken /\ login = "resolves" THEN "ready" ELSE "waiting"
    /\ UNCHANGED <<repo, probe, forum, now, updated, token, thread, comments, labels, nextId,
                   syncRun, fuRun, count, overlap>>
\* await getDiscordClient(logger) returns once the shared promise has resolved.
ClientSettled == discordClientPromise = "ready"

\* One issue of the .foreach: the step runs to its end.  A step that throws
\* fails the workflow run.  The item is the issue as fetched, with its
\* updated_at (as a message id: the last message created before the issue's
\* latest update); the step reads every field of the item but updated_at.
SyncIssueAt(k, updatedAt, fail) ==
    /\ syncRun.pc = "running"
    /\ k \in syncRun.todo
    /\ LET i == syncRun.work[k]
           out == syncIssueMessagesStep(i, fail)
       IN /\ updatedAt \in 0..Len(thread[i])
          /\ fail \in out.calls \cup {"none"}
          /\ "client" \in out.calls => ClientSettled
          /\ comments' = [comments EXCEPT ![i] = ApplyWrite(@, out.write, nextId)]
          /\ nextId' = IF out.write.kind = "create" THEN nextId + 1 ELSE nextId
          /\ syncRun' =
                IF out.threw THEN [syncRun EXCEPT !.pc = "failed", !.todo = {}]
                ELSE [syncRun EXCEPT !.todo = @ \ {k}, !.active = @ \ {k},
                                     !.results[k] = out.result @@
                                        [failed |-> out.failed, wrote |-> out.write.kind,
                                         calls |-> out.calls, updatedAt |-> updatedAt]]
    /\ updated' = IF comments' # comments THEN Touch(updated, syncRun.work[k]) ELSE updated
    /\ UNCHANGED <<repo, probe, forum, discordClientPromise, now, token, thread, labels, fuRun,
                   count, overlap>>

\* The same, where nothing asks about the item's updated_at.
SyncIssue(k, fail) == SyncIssueAt(k, 0, fail)

\* Time passes: a minute, an hour or a day.
Tick(d) ==
    /\ count.ticks < MaxTicks
    /\ now' = now + d
    /\ count' = [count EXCEPT !.ticks = @ + 1]
    /\ UNCHANGED <<repo, probe, forum, discordClientPromise, updated, token, thread, comments,
                   labels, nextId, syncRun, fuRun, overlap>>

\* The .map after the .foreach, once every issue has settled.
SyncFinish ==
    /\ syncRun.pc = "running"
    /\ syncRun.todo = {}
    /\ syncRun' = [syncRun EXCEPT !.pc = "done"]
    /\ UNCHANGED <<repo, probe, forum, discordClientPromise, now, updated, token, thread,
                   comments, labels, nextId, fuRun, count, overlap>>

\* .foreach(step, { concurrency }): the items start in order, the next one
\* when fewer than concurrency of them are in flight.
ForeachMayStart(run, k) ==
    /\ run.pc = "running"
    /\ run.todo \ run.active # {} /\ k = MinOf(run.todo \ run.active)
    /\ Cardinality(run.active) < Concurrency

\* The step of item k of the sync workflow starts; it ends as SyncIssue.
SyncBegin(k) ==
    /\ ForeachMayStart(syncRun, k)
    /\ syncRun' = [syncRun EXCEPT !.active = @ \cup {k}]
    /\ UNCHANGED <<repo, probe, forum, discordClientPromise, now, updated, token, thread,
                   comments, labels, nextId, fuRun, count, overlap>>
SyncEnd(k, fail) == k \in syncRun.active /\ SyncIssue(k, fail)
\* The same in a process that makes its Discord client on demand: a step that
\* goes on to Discord has got the promise from getDiscordClient.
SyncEndWithClient(k, fail) ==
    /\ k \in syncRun.active
    /\ extractDiscordThreadId(repo[syncRun.work[k]].body, syncRun.work[k]) # 0
       => syncRun.client[k] # 0
    /\ SyncEnd(k, fail)

\* Someone updates the least recently updated of the other issues.
UpdateOther(i) ==
    /\ i \in DOMAIN repo \ Issues
    /\ updated # <<>> /\ i = Last(SelectSeq(updated, LAMBDA e : e \notin Issues))
    /\ count.updates < MaxUpdates
    /\ updated' = Touch(updated, i)
    /\ count' = [count EXCEPT !.updates = @ + 1]
    /\ UNCHANGED <<repo, probe, forum, discordClientPromise, now, token, thread, comments,
                   labels, nextId, syncRun, fuRun, overlap>>

\* discordSyncWorkflow with fetchDiscordLabeledIssuesStep page by page.
\* page: the page the while loop asks for next; allIssues: the issues pushed
\* so far, each with its number and its labels as listed.
FetchStart ==
    /\ syncRun.pc \in {"idle", "done", "failed"}
    /\ count.syncRuns < MaxSyncRuns
    /\ syncRun' = [pc |-> "fetching", page |-> 1, allIssues |-> <<>>] @@ IdleSync
    /\ count' = [count EXCEPT !.syncRuns = @ + 1]
    /\ UNCHANGED <<repo, probe, forum, discordClientPromise, now, updated, token, thread,
                   comments, labels, nextId, fuRun, overlap>>

\* issues.listForRepo({ per_page, page }): page number page of the listing.
PageOf(list, page) ==
    SubSeq(list, (page - 1) * IssuesPerPage + 1,
           IF Len(list) < page * IssuesPerPage THEN Len(list) ELSE page * IssuesPerPage)

\* The .map after the fetch: the numbers of the fetched issues that have a
\* required status label.
FilteredIssues(allIssues) ==
    LET kept == SelectSeq(allIssues, LAMBDA issue : issue.labels \cap StatusLabels # {})
    IN [n \in DOMAIN kept |-> kept[n].number]

\* One turn of the while loop: one page is listed.  An empty page ends the
\* loop, and the .map hands the filtered issues to the .foreach; a listing
\* that rejects is rethrown and fails the run.
FetchPage(fail) ==
    /\ syncRun.pc = "fetching"
    /\ LET issues == PageOf(ListForRepo("discord"), syncRun.page)
           listed == [n \in DOMAIN issues |->
                        [number |-> issues[n], labels |-> labels[issues[n]]]]
           work == FilteredIssues(syncRun.allIssues)
       IN syncRun' =
             IF fail THEN [syncRun EXCEPT !.pc = "failed"]
             ELSE IF issues = <<>>
             THEN [syncRun EXCEPT !.pc = "running", !.work = work, !.todo = DOMAIN work,
                                  !.active = {},
                                  !.results = [k \in DOMAIN work |-> PendingSync],
                                  !.expected = [k \in DOMAIN work |->
                                       syncIssueMessagesStep(work[k], "none").result],
                                  !.client = [k \in DOMAIN work |-> 0]]
             ELSE [syncRun EXCEPT !.allIssues = @ \o listed, !.page = @ + 1]
    /\ UNCHANGED <<repo, probe, forum, discordClientPromise, now, updated, token, thread,
                   comments, labels, nextId, fuRun, count, overlap>>

\* githubIssueManagerWorkflow.
StartFollowUp(max) ==
    /\ fuRun.pc \in {"idle", "done"}
    /\ count.fuRuns < max
    /\ fuRun' = StartedRun(FollowUpWorkingSet, PendingCheck)
    /\ count' = [count EXCEPT !.fuRuns = @ + 1]
    /\ UNCHANGED <<repo, probe, forum, discordClientPromise, now, updated, token, thread,
                   comments, labels, nextId, syncRun, overlap>>
FollowUpStart == StartFollowUp(MaxFuRuns)

\* One issue of the .foreach: processIssueWorkflow, which is
\* checkCommentAuthorStep and the .map of its result.
FollowUpIssue(k, fail) ==
    /\ fuRun.pc = "running"
    /\ k \in fuRun.todo
    /\ LET i == fuRun.work[k]
           out == checkCommentAuthorStep(i, fail)
       IN /\ fail = "addLabels" => out.addLabelsCalled
          /\ labels' = [labels EXCEPT ![i] =
                           IF out.labelAdded THEN AddLabels(@, {FollowUpLabel}) ELSE @]
          /\ fuRun' = [fuRun EXCEPT !.todo = @ \ {k}, !.active = @ \ {k},
                                    !.results[k] =
                                       [issueNumber |-> i, labelAdded |-> out.labelAdded,
                                        labelReason |-> out.labelReason, success |-> TRUE,
                                        needsFollowUp |-> out.needsFollowUp,
                                        addLabelsCalled |-> out.addLabelsCalled,
                                        listed |-> out.listed, github |-> out.github,
                                        tracker |-> out.tracker, threw |-> out.threw]]
    /\ updated' = IF labels' # labels THEN Touch(updated, fuRun.work[k]) ELSE updated
    /\ UNCHANGED <<repo, probe, forum, discordClientPromise, now, token, thread, comments,
                   nextId, syncRun, count, overlap>>

\* The pipeline of item k of the follow-up workflow starts; it ends as
\* FollowUpIssue.
FollowUpBegin(k) ==
    /\ ForeachMayStart(fuRun, k)
    /\ fuRun' = [fuRun EXCEPT !.active = @ \cup {k}]
    /\ UNCHANGED <<repo, probe, forum, discordClientPromise, now, updated, token, thread,
                   comments, labels, nextId, syncRun, count, overlap>>
FollowUpEnd(k, fail) == k \in fuRun.active /\ FollowUpIssue(k, fail)

\* The role check of the earlier single-issue pipeline, on the role fact the
\* pipeline's sync step hands it ("absent" is null).
checkDiscordAuthorRoleStep(hasDiscordThread, role, fail) ==
    IF ~hasDiscordThread \/ role = "absent" THEN [discordFollowUpLabelAdded |-> FALSE]
    ELSE IF role = "false" THEN [discordFollowUpLabelAdded |-> ~fail]
    ELSE [discordFollowUpLabelAdded |-> FALSE]

RoleCheckIssue(i, hasDiscordThread, role, fail) ==
    /\ i \in Range(FollowUpWorkingSet)
    /\ LET out == checkDiscordAuthorRoleStep(hasDiscordThread, role, fail) IN
       labels' = [labels EXCEPT ![i] =
                     IF out.discordFollowUpLabelAdded THEN AddLabels(@, {FollowUpLabel})
                     ELSE @]
    /\ updated' = IF labels' # labels THEN Touch(updated, i) ELSE updated
    /\ UNCHANGED <<repo, probe, forum, discordClientPromise, now, token, thread, comments,
                   nextId, syncRun, fuRun, count, overlap>>

----------------------------------------------------------------------------
\* The earlier single-issue pipeline (process-single-issue with three steps):
\* checkCommentAuthorStep, syncDiscordMessagesStep, checkDiscordAuthorRoleStep.
\* The operation named by fail rejects wherever the pipeline calls it.
PipelineFails == {"none", "listComments", "channel", "messages", "member", "post", "write",
                  "addLabels"}

\* The earlier checkCommentAuthorStep: the last human comment's author alone.
checkCommentAuthorStepV1(i, fail) ==
    LET page == ListComments(i)
        lastAuthor == LastAuthor(page)
        Out(needs, added, called) ==
            [needsFollowUp |-> needs, labelAdded |-> added, addLabelsCalled |-> called]
    IN
    IF fail = "listComments" \/ lastAuthor = NoLogin THEN Out(FALSE, FALSE, FALSE)
    ELSE IF ~getMemberByLogin(lastAuthor) THEN Out(TRUE, fail # "addLabels", TRUE)
    ELSE Out(FALSE, FALSE, FALSE)

\* formatDiscordMessageAsComment(author, content, timestamp, messageUrl): a
\* comment body without the marker, which shows the message and links to it.
formatDiscordMessageAsComment(id, msg) == [TextBody EXCEPT !.messages = <<SyncedMessage(id, msg)>>]
\* The newest message of the thread that a comment of issue i relays (0: none).
LastRelayed(i) ==
    MaxOf({0} \cup {comments[i][n].body.messages[1].id :
                      n \in {m \in DOMAIN comments[i] : /\ ~comments[i][m].body.marker
                                                         /\ comments[i][m].body.messages # <<>>}})

\* if (!thread?.isThread()) of syncDiscordMessagesStep: what the step returns
\* for a channel that is not a thread.  The step's output has no error field
\* (error is null here).
NotAThreadResultV1(threadId) ==
    [hasDiscordThread |-> TRUE, messagesSynced |-> 0, threadId |-> threadId,
     lastDiscordAuthorHasMastraRole |-> "absent", error |-> "null"]

\* syncDiscordMessagesStep.execute for issue i whose snapshot has the given
\* updated_at.  Times are message ids: updatedAt is the id of the last message
\* created before the issue's update, and a tracker's lastTimestamp is the
\* creation time of its lastMessageId.  posted are the comments created for
\* the new messages, write is the tracker write.  Of the createComment calls of
\* the loop, "post" names the last one: when it rejects, the messages before
\* the last one have their comments.
syncDiscordMessagesStep(i, updatedAt, fail) ==
    LET threadId == extractDiscordThreadId(repo[i].body, i)
        Result(has, n, tid, role) ==
            [hasDiscordThread |-> has, messagesSynced |-> n, threadId |-> tid,
             lastDiscordAuthorHasMastraRole |-> role, error |-> "null"]
        Out(res, posted, write, calls) ==
            [result |-> res, posted |-> posted, write |-> write, calls |-> calls]
        Caught(posted, calls) == Out(Result(TRUE, 0, threadId, "absent"), posted, NoWrite, calls)
        page == ListComments(i)
        k == FindSyncTracker(page)
        syncInfo == IF k = 0 THEN NoSyncInfo ELSE parseSyncTrackerComment(page[k].body)
        lastSyncedTimestamp == IF syncInfo.found THEN syncInfo.lastMessageId ELSE updatedAt
        syncTrackerCommentId == IF syncInfo.found THEN page[k].id ELSE 0
        fetched == MessagesFetch(thread[i], 0)
        newIds == Ascending({id \in fetched :
                               id > lastSyncedTimestamp /\ thread[i][id].content # ""})
        posted == [n \in 1..Len(newIds) |->
                     formatDiscordMessageAsComment(newIds[n], thread[i][newIds[n]])]
        body == V1TrackerBody(Last(newIds), NoLast)
        write ==
            IF newIds = <<>> THEN NoWrite
            ELSE IF syncTrackerCommentId # 0
                 THEN [kind |-> "update", commentId |-> syncTrackerCommentId, body |-> body]
                 ELSE [kind |-> "create", commentId |-> 0, body |-> body]
        \* allMessagesArray[0]: the newest fetched message.
        lastDiscordAuthorHasMastraRole ==
            IF fetched = {} \/ fail = "member" THEN "absent"
            ELSE Tri(HasTeamRole(thread[i][MaxOf(fetched)].user))
        upToFetch == {"channel", "listComments", "messages"}
        allCalls == upToFetch \cup (IF newIds # <<>> THEN {"post", "write"} ELSE {})
                              \cup (IF fetched # {} THEN {"member"} ELSE {})
    IN
    IF threadId = 0 THEN Out(Result(FALSE, 0, 0, "absent"), <<>>, NoWrite, {})
    ELSE IF fail = "channel" THEN Caught(<<>>, {"channel"})
    ELSE IF ~repo[i].isThread THEN Out(NotAThreadResultV1(threadId), <<>>, NoWrite, {"channel"})
    ELSE IF fail = "listComments" THEN Caught(<<>>, {"channel", "listComments"})
    ELSE IF fail = "messages" THEN Caught(<<>>, upToFetch)
    ELSE IF fail = "post" /\ newIds # <<>>
    THEN Caught(Take(posted, Len(newIds) - 1), upToFetch \cup {"post"})
    ELSE IF fail = "write" /\ newIds # <<>> THEN Caught(posted, upToFetch \cup {"post", "write"})
    ELSE Out(Result(TRUE, Len(newIds), threadId, lastDiscordAuthorHasMastraRole),
             posted, write, allCalls)

\* One issue of the earlier workflow's .foreach: the three steps in order and
\* the .map of their results.  Next to the pipeline's output, the result
\* records how many issues.addLabels calls the pipeline made and what the
\* sync step returned and called.
ProcessIssueV1(k, updatedAt, fail) ==
    /\ fuRun.pc = "running"
    /\ k \in fuRun.todo
    /\ LET i == fuRun.work[k]
           commentResult == checkCommentAuthorStepV1(i, fail)
           sync == syncDiscordMessagesStep(i, updatedAt, fail)
           syncResult == sync.result
           roleCalled == syncResult.hasDiscordThread
                         /\ syncResult.lastDiscordAuthorHasMastraRole = "false"
           discordRoleResult ==
               checkDiscordAuthorRoleStep(syncResult.hasDiscordThread,
                                          syncResult.lastDiscordAuthorHasMastraRole,
                                          fail = "addLabels")
           labelAdded == commentResult.labelAdded \/ discordRoleResult.discordFollowUpLabelAdded
           n == Len(sync.posted)
           withPosts == comments[i] \o [m \in 1..n |->
                            [id |-> nextId + m - 1, user |-> token, body |-> sync.posted[m]]]
       IN /\ updatedAt \in LastRelayed(i)..Len(thread[i])
          /\ fail \in sync.calls \cup {"none", "listComments"}
                      \cup (IF commentResult.addLabelsCalled \/ roleCalled
                            THEN {"addLabels"} ELSE {})
          /\ labels' = [labels EXCEPT ![i] =
                           IF labelAdded THEN AddLabels(@, {FollowUpLabel}) ELSE @]
          /\ comments' = [comments EXCEPT ![i] = ApplyWrite(withPosts, sync.write, nextId + n)]
          /\ nextId' = nextId + n + (IF sync.write.kind = "create" THEN 1 ELSE 0)
          /\ fuRun' = [fuRun EXCEPT !.todo = @ \ {k}, !.active = @ \ {k},
                                    !.results[k] =
                                       [issueNumber |-> i, labelAdded |-> labelAdded,
                                        messagesSynced |-> syncResult.messagesSynced,
                                        success |-> TRUE,
                                        labelCalls |->
                                           (IF commentResult.addLabelsCalled THEN 1 ELSE 0)
                                           + (IF roleCalled THEN 1 ELSE 0),
                                        syncResult |-> syncResult,
                                        syncCalls |-> sync.calls,
                                        failed |-> fail]]
    /\ updated' = IF labels' # labels \/ comments' # comments
                   THEN Touch(updated, fuRun.work[k]) ELSE updated
    /\ UNCHANGED <<repo, probe, forum, discordClientPromise, now, token, thread, syncRun, count,
                   overlap>>

FollowUpFinish ==
    /\ fuRun.pc = "running"
    /\ fuRun.todo = {}
    /\ fuRun' = [fuRun EXCEPT !.pc = "done"]
    /\ UNCHANGED <<repo, probe, forum, discordClientPromise, now, updated, token, thread,
                   comments, labels, nextId, syncRun, count, overlap>>

Next ==
    \/ \E i \in Issues, msg \in DiscordMessages : PostMessage(i, msg)
    \/ \E i \in Issues, user \in CommentAuthors : AddComment(i, user)
    \/ SyncStart
    \/ \E k \in DOMAIN syncRun.work, fail \in SyncFails : SyncIssue(k, fail)
    \/ SyncFinish
    \/ FollowUpStart
    \/ \E k \in DOMAIN fuRun.work, fail \in CheckFails : FollowUpIssue(k, fail)
    \/ FollowUpFinish

\* The whole system, from a fresh issue.
Spec == Init /\ [][Next]_vars

\* The sync workflow and the Discord thread.
NextSync ==
    \/ \E i \in Issues, msg \in DiscordMessages : PostMessage(i, msg)
    \/ SyncStart
    \/ \E k \in DOMAIN syncRun.work, fail \in SyncFails : SyncIssue(k, fail)
    \/ SyncFinish
SyncSpec == InitDeep /\ [][NextSync]_vars

\* The sync workflow run again and again as time passes and the thread grows.
InitRender ==
    InitOne({Shape(Linked, th, InitialComments(0, tr), WaitingLabels) :
                th \in {<<Outsider>>, <<Teammate, Outsider>>}, tr \in {"none", "v1"}},
            {CHOOSE t \in TokenUsers : getMemberByLogin(t.login)})
NextRender ==
    \/ \E i \in Issues, msg \in {Outsider} : PostMessage(i, msg)
    \/ \E d \in {1, 60, 24 * 60} : Tick(d)
    \/ SyncStart
    \/ \E k \in DOMAIN syncRun.work, fail \in {"none", "messages"} : SyncIssue(k, fail)
    \/ SyncFinish
RenderSpec == InitRender /\ [][NextRender]_vars

\* Two further runs of the sync workflow overlap on an issue: each lists the
\* comments, fetches the messages and writes, the awaits of the one among the
\* awaits of the other; a run of the workflow on its own comes before or after.
OverlapList(r, i) ==
    /\ overlap[r].pc = "idle"
    /\ syncRun.pc # "running"
    /\ i \in Range(SyncWorkingSet)
    /\ extractDiscordThreadId(repo[i].body, i) # 0 /\ repo[i].isThread
    /\ overlap' = [overlap EXCEPT ![r] = [IdleStep EXCEPT !.pc = "listed", !.issue = i,
                                                           !.page = ListComments(i)]]
    /\ UNCHANGED <<repo, thread, comments, labels, updated, now, discordClientPromise, forum,
                   probe, nextId, token, syncRun, fuRun, count>>
OverlapFetch(r, fail) ==
    /\ overlap[r].pc = "listed"
    /\ LET i == overlap[r].issue
           out == syncIssueMessagesStepOn(i, overlap[r].page, thread[i], fail)
       IN overlap' = [overlap EXCEPT ![r].pc = IF out.result.success THEN "fetched" ELSE "done",
                                     ![r].write = out.write]
    /\ UNCHANGED <<repo, thread, comments, labels, updated, now, discordClientPromise, forum,
                   probe, nextId, token, syncRun, fuRun, count>>
OverlapWrite(r, fail) ==
    /\ overlap[r].pc = "fetched"
    /\ LET i == overlap[r].issue
           write == IF fail = "write" THEN NoWrite ELSE overlap[r].write
       IN /\ comments' = [comments EXCEPT ![i] = ApplyWrite(@, write, nextId)]
          /\ nextId' = IF write.kind = "create" THEN nextId + 1 ELSE nextId
          /\ updated' = IF comments' # comments THEN Touch(updated, i) ELSE updated
    /\ overlap' = [overlap EXCEPT ![r].pc = "done", ![r].success = fail # "write"]
    /\ UNCHANGED <<repo, thread, labels, now, discordClientPromise, forum, probe, token,
                   syncRun, fuRun, count>>
InitOverlap ==
    InitOne({Shape(Linked, <<Outsider>>, InitialComments(0, tr), WaitingLabels) :
                tr \in {"none", "plain", "v1"}},
            {CHOOSE t \in TokenUsers : getMemberByLogin(t.login)})
NextOverlap ==
    \/ \E i \in Issues, msg \in {Outsider} : PostMessage(i, msg)
    \/ \E r \in OverlapRuns, i \in Issues : OverlapList(r, i)
    \/ \E r \in OverlapRuns, fail \in {"none", "messages"} : OverlapFetch(r, fail)
    \/ \E r \in OverlapRuns, fail \in {"none", "write"} : OverlapWrite(r, fail)
    \/ (\A r \in OverlapRuns : overlap[r].pc \in {"idle", "done"}) /\ SyncStart
    \/ \E k \in DOMAIN syncRun.work, fail \in {"none", "messages"} : SyncIssue(k, fail)
    \/ SyncFinish
OverlapSpec == InitOverlap /\ [][NextOverlap]_vars

\* The sync workflow retried: in the first run one of the step's calls rejects
\* (or the channel is not a thread), later runs are free.
InitRetry ==
    InitOne({Shape(k, Filler(tb, Outsider), InitialComments(0, tr), WaitingLabels) :
                k \in {Linked, Stale}, tb \in {1, FetchLimit + 1}, tr \in {"none", "v1"}},
            {CHOOSE t \in TokenUsers : getMemberByLogin(t.login)})
NextRetry ==
    \/ \E i \in Issues, msg \in {Outsider, Teammate} : PostMessage(i, msg)
    \/ SyncStart
    \/ \E k \in DOMAIN syncRun.work, fail \in SyncFails :
          /\ count.syncRuns = 1 /\ repo[syncRun.work[k]].isThread
             => InOuterTry(fail) /\ ~InMemberTry(fail)
          /\ SyncIssue(k, fail)
    \/ SyncFinish
RetrySpec == InitRetry /\ [][NextRetry]_vars

\* The two workflows and the issue's comments, the thread being quiet.
NextFollowUp ==
    \/ \E i \in Issues, user \in CommentAuthors : AddComment(i, user)
    \/ SyncStart
    \/ \E k \in DOMAIN syncRun.work, fail \in {"none", "member"} : SyncIssue(k, fail)
    \/ SyncFinish
    \/ FollowUpStart
    \/ \E k \in DOMAIN fuRun.work, fail \in CheckFails : FollowUpIssue(k, fail)
    \/ FollowUpFinish
FollowUpSpec == InitFollowUp /\ [][NextFollowUp]_vars

\* A batch of the sync workflow over several issues, in which a thread fetch
\* may throw.
NextBatch ==
    \/ SyncStart
    \/ \E k \in DOMAIN syncRun.work, fail \in {"none", "channel"} : SyncIssue(k, fail)
    \/ SyncFinish
BatchSpec == InitBatch /\ [][NextBatch]_vars

\* Every step that touches labels, with the role check of the earlier pipeline.
NextLabels ==
    \/ SyncStart
    \/ \E k \in DOMAIN syncRun.work : SyncIssue(k, "none")
    \/ SyncFinish
    \/ FollowUpStart
    \/ \E k \in DOMAIN fuRun.work, fail \in CheckFails : FollowUpIssue(k, fail)
    \/ FollowUpFinish
    \/ \E i \in Issues, has \in BOOLEAN, role \in {"true", "false", "absent"},
          fail \in BOOLEAN : RoleCheckIssue(i, has, role, fail)
LabelSpec == InitFollowUp /\ [][NextLabels]_vars

\* The follow-up workflow while people comment and change labels.
NextRelabel ==
    \/ \E i \in Issues, user \in CommentAuthors : AddComment(i, user)
    \/ \E i \in Issues, label \in StatusLabels : RemoveLabel(i, label)
    \/ FollowUpStart
    \/ \E k \in DOMAIN fuRun.work, fail \in CheckFails : FollowUpIssue(k, fail)
    \/ FollowUpFinish
RelabelSpec == InitFollowUp /\ [][NextRelabel]_vars

\* The sync workflow on issues fetched with any updated_at: before every
\* message of the thread, after the first, or after the first FetchLimit + 1.
NextCursor ==
    \/ \E i \in Issues, msg \in DiscordMessages : PostMessage(i, msg)
    \/ SyncStart
    \/ \E k \in DOMAIN syncRun.work, updatedAt \in {0, 1, FetchLimit + 1}, fail \in SyncFails :
          SyncIssueAt(k, updatedAt, fail)
    \/ SyncFinish
CursorSpec == InitDeep /\ [][NextCursor]_vars

\* The sync workflow on a repository with more than a page of 'discord'
\* issues, which people go on updating.
NextPaged ==
    \/ \E i \in Issues, msg \in DiscordMessages : PostMessage(i, msg)
    \/ \E i \in DOMAIN repo \ Issues : UpdateOther(i)
    \/ FetchStart
    \/ \E fail \in BOOLEAN : FetchPage(fail)
    \/ \E k \in DOMAIN syncRun.work, fail \in SyncFails : SyncIssue(k, fail)
    \/ SyncFinish
PagedSpec == InitPaged /\ [][NextPaged]_vars

\* A batch larger than the concurrency: issue 1 and NumWaiting others that wait
\* for their author.  One of the two workflows is scheduled; of the calls of a
\* step, channels.fetch may reject.
LargeBatch == Among(Shape(Linked, <<Outsider>>, <<>>, WaitingLabels), NumWaiting, WaitingLabels)
InitFanOut ==
    \E scheduled \in {"sync", "followUp"} :
        /\ repo = [i \in DOMAIN LargeBatch |-> LargeBatch[i].issue]
        /\ thread = [i \in DOMAIN LargeBatch |-> LargeBatch[i].thread]
        /\ comments = [i \in DOMAIN LargeBatch |-> LargeBatch[i].comments]
        /\ labels = [i \in DOMAIN LargeBatch |-> LargeBatch[i].labels]
        /\ updated = OrderWith(NumWaiting, 1)
        /\ now = 0
        /\ discordClientPromise = "ready"
        /\ forum = QuietForum
        /\ probe = NoProbe
        /\ nextId = PerPage + 2
        /\ token = CHOOSE t \in TokenUsers : getMemberByLogin(t.login)
        /\ syncRun = IdleSync
        /\ fuRun = IdleRun
        /\ count = [posts |-> [i \in Issues |-> 0], added |-> [i \in Issues |-> 0],
                    syncRuns |-> IF scheduled = "sync" THEN 0 ELSE MaxSyncRuns,
                    fuRuns |-> IF scheduled = "followUp" THEN 0 ELSE MaxFuRuns,
                    updates |-> 0, ticks |-> 0, clients |-> 0]
        /\ overlap = [r \in OverlapRuns |-> IdleStep]
NextFanOut ==
    \/ SyncStart
    \/ \E k \in DOMAIN syncRun.work : SyncBegin(k)
    \/ \E k \in DOMAIN syncRun.work, fail \in {"none", "channel"} : SyncEnd(k, fail)
    \/ SyncFinish
    \/ FollowUpStart
    \/ \E k \in DOMAIN fuRun.work : FollowUpBegin(k)
    \/ \E k \in DOMAIN fuRun.work, fail \in {"none"} : FollowUpEnd(k, fail)
    \/ FollowUpFinish
\* Every step that may start does start, and every call a step awaits settles.
FanOutSpec ==
    /\ InitFanOut /\ [][NextFanOut]_vars
    /\ WF_vars(\E k \in DOMAIN syncRun.work : SyncBegin(k))
    /\ WF_vars(\E k \in DOMAIN syncRun.work, fail \in {"none", "channel"} : SyncEnd(k, fail))
    /\ WF_vars(\E k \in DOMAIN fuRun.work : FollowUpBegin(k))
    /\ WF_vars(\E k \in DOMAIN fuRun.work, fail \in {"none"} : FollowUpEnd(k, fail))

\* The sync workflow of a process that has not logged in to Discord yet.
InitHang ==
    \E shape \in [Issues -> BatchShapes] :
        InitWithClient(shape, Ascending({i \in Issues : shape[i].issue.open}),
                       {CHOOSE t \in TokenUsers : getMemberByLogin(t.login)}, "null")
NextHang ==
    \/ SyncStart
    \/ \E k \in DOMAIN syncRun.work : SyncBegin(k)
    \/ \E k \in DOMAIN syncRun.work : getDiscordClient(k)
    \/ \E botToken \in BOOLEAN, login \in {"resolves", "rejects"} :
          createDiscordClient(botToken, login)
    \/ \E k \in DOMAIN syncRun.work, fail \in {"none", "channel", "messages"} :
          SyncEndWithClient(k, fail)
    \/ SyncFinish
\* Every step that may start does start, and every call a step awaits settles.
HangSpec ==
    /\ InitHang /\ [][NextHang]_vars
    /\ WF_vars(\E k \in DOMAIN syncRun.work : SyncBegin(k))
    /\ WF_vars(\E k \in DOMAIN syncRun.work : getDiscordClient(k))
    /\ WF_vars(\E botToken \in BOOLEAN, login \in {"resolves", "rejects"} :
                  createDiscordClient(botToken, login))
    /\ WF_vars(\E k \in DOMAIN syncRun.work, fail \in {"none", "channel", "messages"} :
                  SyncEndWithClient(k, fail))
    /\ WF_vars(SyncFinish)

\* discordToGithubWorkflow: an issue for every post of the help forum.
Posts == 1..NumPosts
\* An issue as the search sees it: the post id its text names, where, and
\* whether it has the 'discord' label.  createGithubIssueStep names the post in
\* the body and sets the label; the old format has '[DISCORD:<id>]' in the title.
CreatedIssue(id) == [post |-> id, where |-> "body", discord |-> TRUE]
TitledIssue(id) == [post |-> id, where |-> "title", discord |-> FALSE]
\* GET /search/issues, q: is:issue (label:discord "<id>" OR in:title "[DISCORD:<id>]")
SearchIssues(issues, id) ==
    SelectSeq(issues, LAMBDA e : e.post = id /\ (e.discord \/ e.where = "title"))
\* getGithubIssueStep: hasIssue = searchResults.items.length > 0
getGithubIssueStep(issues, id) == Len(SearchIssues(issues, id)) > 0

\* The conditions of the three branches of processPostWorkflow.
\* (A first condition that looks at the tag only.)
CreateUnlessSkipped(hasIssue, tags) == "skip-github" \notin tags
CreateBranch(hasIssue, tags) == ~hasIssue /\ "skip-github" \notin tags
\* .branch runs every branch whose condition holds: the second on hasIssue,
\* the third on !hasIssue && tags.includes('skip-github').
Branches(hasIssue, tags) ==
    (IF CreateBranch(hasIssue, tags) THEN {"create-github-issue"} ELSE {})
    \cup (IF hasIssue THEN {"has-issue"} ELSE {})
    \cup (IF ~hasIssue /\ "skip-github" \in tags THEN {"skip-github"} ELSE {})

PendingPost == [hasIssue |-> FALSE, ran |-> {}, created |-> FALSE, failed |-> "pending"]
\* processPostWorkflow for post id: the search, then the branches.  A call
\* that rejects makes the step throw.
processPostWorkflow(id, fail) ==
    LET hasIssue == getGithubIssueStep(forum.issues, id)
        ran == Branches(hasIssue, forum.tags[id])
    IN
    IF fail = "search"
    THEN [hasIssue |-> FALSE, ran |-> {}, created |-> FALSE, failed |-> "search"]
    ELSE [hasIssue |-> hasIssue, ran |-> ran,
          created |-> "create-github-issue" \in ran /\ fail # "create",
          failed |-> IF "create-github-issue" \in ran THEN fail ELSE "none"]

\* .then(fetchPostsStep): the posts of the forum that the run works on.
ForumStart(work) ==
    /\ forum.run.pc # "running"
    /\ forum.runs < MaxForumRuns
    /\ work # <<>> /\ Range(work) \subseteq DOMAIN forum.tags
    /\ forum' = [forum EXCEPT !.runs = @ + 1, !.run = StartedRun(work, PendingPost)]
    /\ UNCHANGED <<repo, probe, discordClientPromise, now, updated, token, thread, comments, labels,
                   nextId, syncRun, fuRun, count, overlap>>
\* .foreach(processPostWorkflow, { concurrency: 1 }): the posts one at a time,
\* in order.  A step that throws fails the run.
ProcessPost(k, fail) ==
    /\ forum.run.pc = "running"
    /\ forum.run.todo # {} /\ k = MinOf(forum.run.todo)
    /\ LET id == forum.run.work[k]
           out == processPostWorkflow(id, fail)
       IN /\ out.failed = fail
          /\ forum' =
                [forum EXCEPT
                   !.issues = IF out.created THEN Append(@, CreatedIssue(id)) ELSE @,
                   !.run = IF out.failed # "none"
                           THEN [@ EXCEPT !.pc = "failed", !.todo = {}, !.results[k] = out]
                           ELSE [@ EXCEPT !.todo = @ \ {k}, !.results[k] = out]]
    /\ UNCHANGED <<repo, probe, discordClientPromise, now, updated, token, thread, comments, labels,
                   nextId, syncRun, fuRun, count, overlap>>
ForumFinish ==
    /\ forum.run.pc = "running"
    /\ forum.run.todo = {}
    /\ forum' = [forum EXCEPT !.run.pc = "done"]
    /\ UNCHANGED <<repo, probe, discordClientPromise, now, updated, token, thread, comments, labels,
                   nextId, syncRun, fuRun, count, overlap>>

\* The forum has its posts, some with the 'skip-github' tag, some with an
\* issue of the old format; the repository's other issues are closed.
InitForum ==
    \E tags \in [Posts -> {{}, {"skip-github"}}], old \in SUBSET Posts :
        InitIdle([QuietForum EXCEPT
                     !.tags = tags,
                     !.issues = [n \in 1..Cardinality(old) |-> TitledIssue(Ascending(old)[n])]],
                 NoProbe)
NextForum ==
    \/ \E S \in SUBSET Posts : ForumStart(Ascending(S))
    \/ \E k \in DOMAIN forum.run.work, fail \in {"none", "search", "create"} :
          ProcessPost(k, fail)
    \/ ForumFinish
ForumSpec == InitForum /\ [][NextForum]_vars

\* extractDiscordThreadId on its own, for every body up to MaxBodyLen symbols:
\* the body is null or a text that someone writes symbol by symbol.
InitExtract ==
    \E body \in {NullText, Text(<<>>)} : InitIdle(QuietForum, [NoProbe EXCEPT !.body = body])
Write(symbol) ==
    /\ ~probe.called /\ ~probe.body.null
    /\ Len(probe.body.text) < MaxBodyLen
    /\ probe' = [probe EXCEPT !.body.text = Append(@, symbol)]
    /\ UNCHANGED <<repo, discordClientPromise, forum, now, updated, token, thread, comments,
                   labels, nextId, syncRun, fuRun, count, overlap>>
Extract ==
    /\ ~probe.called
    /\ probe' = [probe EXCEPT !.called = TRUE, !.value = extractThreadId(probe.body)]
    /\ UNCHANGED <<repo, discordClientPromise, forum, now, updated, token, thread, comments,
                   labels, nextId, syncRun, fuRun, count, overlap>>
NextExtract ==
    \/ \E symbol \in Symbols : Write(symbol)
    \/ Extract
ExtractSpec == InitExtract /\ [][NextExtract]_vars

\* The relative-time label of the renderer on its own, for a message of any
\* age up to MaxAge minutes (or from a clock a little ahead).
InitAge ==
    \E minutes \in (-2)..MaxAge :
        InitIdle(QuietForum, [minutes |-> minutes, called |-> FALSE, label |-> RelativeTime(0)])
RenderLabel ==
    /\ ~probe.called
    /\ probe' = [probe EXCEPT !.called = TRUE, !.label = RelativeTime(probe.minutes)]
    /\ UNCHANGED <<repo, discordClientPromise, forum, now, updated, token, thread, comments,
                   labels, nextId, syncRun, fuRun, count, overlap>>
AgeSpec == InitAge /\ [][RenderLabel]_vars

\* getRepoLabels of shared/github.ts and its module variable cachedLabels.
\* A list is null or an array; the labels of a repository are told apart by
\* the repository and their place in its listing.
NullList == [null |-> TRUE, list |-> <<>>]
List(list) == [null |-> FALSE, list |-> list]
Repos == {"mastra-ai/mastra", "other/repo"}
RepoLabels(r, n) == [k \in 1..n |-> [repo |-> r, name |-> k]]
\* A call that has not been made.
NoCall ==
    [pc |-> "idle", repo |-> "none", page |-> 0, labels |-> <<>>, requests |-> 0,
     hit |-> FALSE, returned |-> NullList]
\* No call has been made; each repository has its labels.
InitLabels ==
    \E sizes \in [Repos -> {0, 1, LabelsPerPage, LabelsPerPage + 1}] :
        InitIdle(QuietForum,
                 [cachedLabels |-> NullList, first |-> NullList,
                  remote |-> [r \in Repos |-> RepoLabels(r, sizes[r])],
                  calls |-> [c \in 1..MaxCalls |-> NoCall]])
\* issues.listLabelsForRepo({ owner, repo, per_page: 100, page })
listLabelsForRepo(r, page) ==
    LET all == probe.remote[r]
        from == (page - 1) * LabelsPerPage + 1
        to == IF Len(all) < page * LabelsPerPage THEN Len(all) ELSE page * LabelsPerPage
    IN SubSeq(all, from, to)
\* if (cachedLabels): an array, empty or not, is truthy.
Cached(list) == ~list.null
\* getRepoLabels(owner, repo) up to its first await: the cached list is
\* returned, or the request for page 1 is sent.
getRepoLabels(c, r) ==
    /\ probe.calls[c].pc = "idle"
    /\ \A b \in 1..(c - 1) : probe.calls[b].pc # "idle"
    /\ probe' =
          IF Cached(probe.cachedLabels)
          THEN [probe EXCEPT !.calls[c] = [@ EXCEPT !.pc = "done", !.repo = r, !.hit = TRUE,
                                                    !.returned = probe.cachedLabels]]
          ELSE [probe EXCEPT !.calls[c] = [@ EXCEPT !.pc = "awaiting", !.repo = r, !.page = 1,
                                                    !.requests = 1]]
    /\ UNCHANGED <<repo, discordClientPromise, forum, now, updated, token, thread, comments,
                   labels, nextId, syncRun, fuRun, count, overlap>>
\* The awaited page arrives, or the request rejects and the call throws.  The
\* loop goes on to the next page after a full one; after the loop the list is
\* cached and returned.
PageArrives(c, fail) ==
    LET call == probe.calls[c]
        data == listLabelsForRepo(call.repo, call.page)
        pushed == call.labels \o data
    IN
    /\ call.pc = "awaiting"
    /\ probe' =
          IF fail THEN [probe EXCEPT !.calls[c].pc = "failed"]
          ELSE IF Len(data) = 0 \/ Len(data) < LabelsPerPage
          THEN [probe EXCEPT !.cachedLabels = List(pushed),
                             !.first = IF @.null THEN List(pushed) ELSE @,
                             !.calls[c] = [@ EXCEPT !.pc = "done", !.labels = pushed,
                                                    !.returned = List(pushed)]]
          ELSE [probe EXCEPT !.calls[c] = [@ EXCEPT !.labels = pushed, !.page = @ + 1,
                                                    !.requests = @ + 1]]
    /\ UNCHANGED <<repo, discordClientPromise, forum, now, updated, token, thread, comments,
                   labels, nextId, syncRun, fuRun, count, overlap>>
NextLabelCache ==
    \/ \E c \in 1..MaxCalls, r \in Repos : getRepoLabels(c, r)
    \/ \E c \in 1..MaxCalls, fail \in BOOLEAN : PageArrives(c, fail)
LabelCacheSpec == InitLabels /\ [][NextLabelCache]_vars

\* The two places that classify a Discord author, on the same guild member:
\* fetchMessages (isTeamMember) and the sync step (the role test on the member
\* that members.fetch returned).
RoleNames == {"Admin", "Mastra Team", "Core Team", "Contributor", "Community", "Bots"}
InitClassify ==
    \E null \in BOOLEAN, roles \in SUBSET RoleNames :
        /\ null => roles = {}
        /\ InitIdle(QuietForum,
                    [member |-> [null |-> null, roles |-> roles],
                     isTeam |-> "absent", lastAuthorIsTeamMember |-> "absent"])
\* isTeam = isTeamMember(member)
ClassifyInMessages ==
    /\ probe.isTeam = "absent"
    /\ probe' = [probe EXCEPT !.isTeam = Tri(isTeamMember(probe.member))]
    /\ UNCHANGED <<repo, discordClientPromise, forum, now, updated, token, thread, comments,
                   labels, nextId, syncRun, fuRun, count, overlap>>
\* lastAuthorIsTeamMember = member.roles.cache.some(...), for a member found.
ClassifyInSync ==
    /\ probe.lastAuthorIsTeamMember = "absent" /\ ~probe.member.null
    /\ probe' = [probe EXCEPT
                    !.lastAuthorIsTeamMember = Tri(RolesIncludeTeam(probe.member.roles))]
    /\ UNCHANGED <<repo, discordClientPromise, forum, now, updated, token, thread, comments,
                   labels, nextId, syncRun, fuRun, count, overlap>>
NextClassify == ClassifyInMessages \/ ClassifyInSync
ClassifySpec == InitClassify /\ [][NextClassify]_vars

\* The earlier githubIssueManagerWorkflow, with the three-step pipeline.
InitLegacy ==
    InitOne(FollowUpShapes \cup {Shape(Stale, <<>>, <<>>, WaitingLabels)}, TokenUsers)
NextLegacy ==
    \/ \E i \in Issues, msg \in DiscordMessages : PostMessage(i, msg)
    \/ \E i \in Issues, user \in CommentAuthors : AddComment(i, user)
    \/ FollowUpStart
    \/ \E k \in DOMAIN fuRun.work, updatedAt \in 0..(MaxPosts + 1), fail \in PipelineFails :
          ProcessIssueV1(k, updatedAt, fail)
    \/ FollowUpFinish
LegacySpec == InitLegacy /\ [][NextLegacy]_vars

\* The earlier workflow run after run on an issue whose thread goes on, where
\* a createComment or the tracker write of a run may reject.
InitRelay ==
    InitOne({Shape(Linked, <<Outsider>>, InitialComments(0, tr), WaitingLabels) :
                tr \in {"none", "v1"}},
            {CHOOSE t \in TokenUsers : getMemberByLogin(t.login)})
NextRelay ==
    \/ \E i \in Issues, msg \in {Outsider, Teammate} : PostMessage(i, msg)
    \/ StartFollowUp(MaxRelayRuns)
    \/ \E k \in DOMAIN fuRun.work, updatedAt \in 0..(MaxPosts + 1),
          fail \in {"none", "messages", "post", "write"} : ProcessIssueV1(k, updatedAt, fail)
    \/ FollowUpFinish
RelaySpec == InitRelay /\ [][NextRelay]_vars

----------------------------------------------------------------------------
\* Properties.
Settled(r) == r.error # "pending"
\* The transition is the sync step of item k of the running sync workflow.
SyncStepTaken(k) ==
    /\ syncRun.pc = "running" /\ k \in syncRun.todo
    /\ syncRun'.pc = "running" /\ k \notin syncRun'.todo
\* The ids of the eligible messages of the thread of issue i.
EligibleIds(i) == {id \in 1..Len(thread[i]) : Eligible(thread[i][id])}
IdsOf(log) == {log[n].id : n \in DOMAIN log}
NoDuplicateIds(log) == \A m, n \in DOMAIN log : m # n => log[m].id # log[n].id
\* The positions of the comments of issue i that the transition wrote.
Written(i) ==
    {n \in DOMAIN comments'[i] : n \notin DOMAIN comments[i] \/ comments'[i][n] # comments[i][n]}
\* The comments of issue i with the marker that were created during the behaviour.
CreatedWithMarker(i) ==
    {n \in DOMAIN comments[i] : comments[i][n].id >= PerPage + 2 /\ comments[i][n].body.marker}

\* C1: after every successful sync run the message log the run persisted holds
\* exactly the ids of the eligible messages of the thread, each once.
C1_CursorMonotonicity ==
    [][\A k \in DOMAIN syncRun.work :
          SyncStepTaken(k) /\ syncRun'.results[k].success
          => \A n \in Written(syncRun.work[k]) :
                LET log == comments'[syncRun.work[k]][n].body.messages IN
                IdsOf(log) = EligibleIds(syncRun.work[k]) /\ NoDuplicateIds(log)]_vars

\* C2: the sync creates at most one comment with the DISCORD_SYNC marker on an
\* issue; later runs update it.
C2_SingleSyncComment == \A i \in Issues : Cardinality(CreatedWithMarker(i)) <= 1

\* C3: the sync step never throws; when one of its external calls (client,
\* channel fetch, list comments, message fetch, comment write) rejects, its
\* result has an error, success = false and messagesSynced = 0.
C3_SyncStepNeverThrows ==
    /\ syncRun.pc # "failed"
    /\ \A k \in DOMAIN syncRun.results :
          LET r == syncRun.results[k] IN
          r.failed \in {"client", "channel", "listComments", "messages", "write"}
          => r.error # "null" /\ ~r.success /\ r.messagesSynced = 0
\* A comment write was rejected and the step returned its error result.
C3_Witness ==
    \E k \in DOMAIN syncRun.results :
        syncRun.results[k].failed = "write" /\ syncRun.results[k].error = "rejected"

\* C4: in a batch where the thread fetch of exactly one issue throws, every
\* issue has its result, that one is an error, every other result is what
\* it would have been, and with the others healthy the error count is one.
Throwers == {k \in DOMAIN syncRun.results : syncRun.results[k].failed = "channel"}
StepResult(r) ==
    [issueNumber |-> r.issueNumber, hasDiscordThread |-> r.hasDiscordThread,
     threadId |-> r.threadId, messagesSynced |-> r.messagesSynced,
     success |-> r.success, error |-> r.error]
C4_FaultIsolation ==
    /\ syncRun.pc # "failed"
    /\ syncRun.pc = "done" /\ Cardinality(Throwers) = 1
       => /\ Len(syncRun.results) = Len(syncRun.work)
          /\ \A k \in DOMAIN syncRun.work : Settled(syncRun.results[k])
          /\ \A k \in Throwers :
                ~syncRun.results[k].success /\ syncRun.results[k].error # "null"
          /\ \A k \in DOMAIN syncRun.work \ Throwers :
                StepResult(syncRun.results[k]) = syncRun.expected[k]
          /\ (\A k \in DOMAIN syncRun.work \ Throwers : syncRun.expected[k].success)
             => SyncSummary(syncRun.results).errors = 1
\* A finished batch of at least two issues: one thread fetch threw, another
\* issue synced its messages.
C4_Witness ==
    /\ syncRun.pc = "done" /\ Cardinality(Throwers) = 1 /\ Len(syncRun.work) >= 2
    /\ \E k \in DOMAIN syncRun.work \ Throwers :
          syncRun.results[k].success /\ syncRun.results[k].messagesSynced > 0

\* The transition is the check of item k of the running follow-up workflow.
FollowUpStepTaken(k) ==
    /\ fuRun.pc = "running" /\ k \in fuRun.todo /\ k \notin fuRun'.todo
\* The latest sync of issue i returned an error.
LastSyncFailed(i) ==
    \E j \in DOMAIN syncRun.work :
        /\ syncRun.work[j] = i
        /\ Settled(syncRun.results[j]) /\ ~syncRun.results[j].success
\* The last eligible message of the thread of issue i is by a team member.
LastDiscordAuthorIsTeamMember(i) ==
    EligibleIds(i) # {} /\ HasTeamRole(thread[i][MaxOf(EligibleIds(i))].user)

\* C5: when the latest sync of an issue failed, the follow-up check does not
\* add the label on the tracker's word while the current last Discord author
\* is a team member.
C5_NoStaleMembershipFact ==
    [][\A k \in DOMAIN fuRun.work :
          /\ FollowUpStepTaken(k)
          /\ LastSyncFailed(fuRun.work[k])
          /\ fuRun'.results[k].labelAdded
          /\ fuRun'.results[k].labelReason = "sync_tracker"
          => ~LastDiscordAuthorIsTeamMember(fuRun.work[k])]_vars

\* C6: labelReason is 'both', 'github_comment', 'sync_tracker' or 'none' after
\* the two signals, and needsFollowUp is their disjunction.
C6_OrSemantics ==
    \A k \in DOMAIN fuRun.results :
        LET r == fuRun.results[k] IN
        r.labelReason # "pending"
        => /\ r.labelReason = (CASE r.github /\ r.tracker -> "both"
                                 [] r.github /\ ~r.tracker -> "github_comment"
                                 [] ~r.github /\ r.tracker -> "sync_tracker"
                                 [] OTHER -> "none")
           /\ r.needsFollowUp = (r.github \/ r.tracker)
\* A check found both signals true.
C6_Witness ==
    \E k \in DOMAIN fuRun.results :
        fuRun.results[k].github /\ fuRun.results[k].tracker
        /\ fuRun.results[k].labelReason = "both"

\* C7: the follow-up check calls addLabels exactly when one of the two signals
\* is true; when neither is (the listing may have failed) it changes nothing
\* of the issue.
C7_LabelAddIffSignal ==
    [][\A k \in DOMAIN fuRun.work :
          FollowUpStepTaken(k)
          => LET r == fuRun'.results[k] IN
             /\ r.addLabelsCalled <=> (r.github \/ r.tracker)
             /\ ~(r.github \/ r.tracker)
                => labels' = labels /\ comments' = comments /\ repo' = repo]_vars
\* A check with the tracker signal alone called addLabels and the label is on
\* the issue.
C7_Witness ==
    \E k \in DOMAIN fuRun.results :
        LET r == fuRun.results[k] IN
        /\ r.addLabelsCalled /\ r.labelAdded /\ ~r.github
        /\ FollowUpLabel \in labels[r.issueNumber]

\* The first comment of issue i with the marker parses and says false.
TrackerSaysNonMember(i) ==
    \E n \in DOMAIN comments[i] :
        /\ comments[i][n].body.marker
        /\ \A m \in 1..(n - 1) : ~comments[i][m].body.marker
        /\ comments[i][n].body.json
        /\ comments[i][n].body.lastAuthorIsTeamMember = "false"

\* C8: the sync-tracker signal is true only when the tracker comment parses and
\* its lastAuthorIsTeamMember is false; absent, true, unparsable or no
\* tracker give false.
C8_TrackerSignalOnlyExplicitFalse ==
    [][\A k \in DOMAIN fuRun.work :
          FollowUpStepTaken(k) /\ fuRun'.results[k].tracker
          => TrackerSaysNonMember(fuRun.work[k])]_vars
\* A check found the tracker signal true.
C8_Witness ==
    \E k \in DOMAIN fuRun.results :
        fuRun.results[k].tracker /\ fuRun.results[k].labelReason = "sync_tracker"

\* The last comment of the whole history of issue i not by a bot has a login
\* that is not on the roster.
WholeHistoryIndicatesNonMember(i) ==
    LET humans == SelectSeq(comments[i], LAMBDA c : c.user.type # "Bot") IN
    /\ humans # <<>>
    /\ Last(humans).user.login # NoLogin
    /\ Last(humans).user.login \notin Roster

\* C9: the GitHub-comment signal is that of the last non-bot comment of the
\* whole comment history of the issue.
C9_GithubSignalFromWholeHistory ==
    [][\A k \in DOMAIN fuRun.work :
          FollowUpStepTaken(k) /\ fuRun'.results[k].listed
          => (fuRun'.results[k].github <=> WholeHistoryIndicatesNonMember(fuRun.work[k]))]_vars

\* C10: no step removes a label from an issue, and the one label a step adds
\* is 'status: needs follow up'.
C10_OneWayRatchet ==
    [][\A i \in Issues :
          labels[i] \subseteq labels'[i] /\ labels'[i] \ labels[i] \subseteq {FollowUpLabel}]_vars
\* The label was added and the issue keeps the labels it had.
C10_Witness ==
    \E i \in Issues : FollowUpLabel \in labels[i] /\ labels[i] \cap StatusLabels # {}

\* C13: the batch aggregates of the results of a run: issuesProcessed is their
\* number, issuesWithThreads and issuesSkipped count those with and without a
\* thread, messagesSynced is the sum of the per-issue counts, errors counts
\* those that did not succeed, and success says that errors is 0.
C13_BatchAggregates ==
    syncRun.pc = "done"
    => LET rs == syncRun.results
           sum == SyncSummary(rs)
           Count(S) == Cardinality(S)
       IN /\ sum.issuesProcessed = Len(rs)
          /\ sum.issuesWithThreads = Count({k \in DOMAIN rs : rs[k].hasDiscordThread})
          /\ sum.issuesSkipped = Count({k \in DOMAIN rs : ~rs[k].hasDiscordThread})
          /\ sum.issuesWithThreads + sum.issuesSkipped = Len(rs)
          /\ sum.errors = Count({k \in DOMAIN rs : ~rs[k].success})
          /\ sum.success = (sum.errors = 0)
          /\ (Len(rs) = 0 => sum.messagesSynced = 0)
          /\ (Len(rs) = 1 => sum.messagesSynced = rs[1].messagesSynced)
          /\ (Len(rs) = 2 => sum.messagesSynced = rs[1].messagesSynced + rs[2].messagesSynced)
          /\ (Len(rs) = 3 => sum.messagesSynced = rs[1].messagesSynced + rs[2].messagesSynced
                                                    + rs[3].messagesSynced)
\* A finished batch with a skipped issue, an error and synced messages.
C13_Witness ==
    /\ syncRun.pc = "done" /\ Len(syncRun.results) = 2
    /\ SyncSummary(syncRun.results).errors = 1
    /\ SyncSummary(syncRun.results).messagesSynced > 0

\* The result the sync step of item k has just returned.
SyncResult(k) == syncRun'.results[k]
\* The issue of item k of the running sync workflow.
SyncItem(k) == syncRun.work[k]
\* The log of the tracker the step reads for issue i: that of the first
\* comment with the marker among the listed ones, if it parses.
PriorLog(i) ==
    LET page == ListComments(i)
        k == FindSyncTracker(page)
    IN IF k = 0 THEN <<>> ELSE parseSyncTrackerComment(page[k].body).messages
\* The first listed comment of issue i with the marker does not parse.
TrackerUnparsable(i) ==
    LET page == ListComments(i)
        k == FindSyncTracker(page)
    IN k # 0 /\ ~page[k].body.json
\* The eligible messages among the FetchLimit latest of the thread of issue i.
LatestEligibleIds(i) ==
    {id \in EligibleIds(i) : id > Len(thread[i]) - FetchLimit}

\* C16: for an issue whose body has no Discord thread URL the sync step
\* returns hasDiscordThread = false, messagesSynced = 0, threadId = null,
\* error = null and success = true, and makes no Discord or GitHub call.
C16_UnlinkedIssueSkipped ==
    [][\A k \in DOMAIN syncRun.work :
          SyncStepTaken(k) /\ repo[SyncItem(k)].body # "link"
          => /\ StepResult(SyncResult(k)) =
                   [issueNumber |-> SyncItem(k), hasDiscordThread |-> FALSE, threadId |-> 0,
                    messagesSynced |-> 0, success |-> TRUE, error |-> "null"]
             /\ SyncResult(k).calls = {}
             /\ comments' = comments]_vars
\* The step has skipped an issue without a link.
C16_Witness ==
    \E k \in DOMAIN syncRun.results :
        /\ Settled(syncRun.results[k]) /\ ~syncRun.results[k].hasDiscordThread
        /\ repo[syncRun.results[k].issueNumber].body # "link"

\* C18: a tracker comment whose JSON does not parse is no prior state: the
\* step goes on with an empty log and the fallback cursor, the issue's
\* updated_at, so it syncs the eligible fetched messages created after
\* updated_at and no others, and its result is not an error.
C18_UnparsableTrackerFallsBackToUpdatedAt ==
    [][\A k \in DOMAIN syncRun.work :
          /\ SyncStepTaken(k)
          /\ TrackerUnparsable(SyncItem(k))
          /\ SyncResult(k).failed = "none" /\ SyncResult(k).hasDiscordThread
          /\ SyncResult(k).error # "not a thread"
          => /\ SyncResult(k).success /\ SyncResult(k).error = "null"
             /\ SyncResult(k).messagesSynced =
                   Cardinality({id \in LatestEligibleIds(SyncItem(k)) :
                                  id > SyncResult(k).updatedAt})
             /\ \A n \in Written(SyncItem(k)) :
                   IdsOf(comments'[SyncItem(k)][n].body.messages)
                      = {id \in LatestEligibleIds(SyncItem(k)) :
                           id > SyncResult(k).updatedAt}]_vars

C20_MessagesSyncedIsNew ==
    [][\A k \in DOMAIN syncRun.work :
          SyncStepTaken(k) /\ SyncResult(k).success /\ SyncResult(k).hasDiscordThread
          => LET i == SyncItem(k) IN
             /\ \A n \in Written(i) :
                   SyncResult(k).messagesSynced =
                      Len(comments'[i][n].body.messages) - Len(PriorLog(i))
             /\ Written(i) = {} => SyncResult(k).messagesSynced = 0]_vars
\* A run has appended one message to a log that holds more.
C20_Witness ==
    \E k \in DOMAIN syncRun.results :
        /\ syncRun.results[k].success /\ syncRun.results[k].messagesSynced = 1
        /\ syncRun.results[k].wrote = "update"
        /\ \E n \in DOMAIN comments[syncRun.results[k].issueNumber] :
              Len(comments[syncRun.results[k].issueNumber][n].body.messages) > 1

\* C11: the follow-up label is added only to an issue that has one of the two
\* status labels at the moment of the label-add, whatever happened to its
\* labels since the batch was fetched.
C11_LabelAddedOnlyWhileWaiting ==
    [][\A k \in DOMAIN fuRun.work :
          FollowUpStepTaken(k) /\ fuRun'.results[k].labelAdded
          => labels[fuRun.work[k]] \cap StatusLabels # {}]_vars

\* C12: for one issue in one run the per-issue pipeline makes at most one
\* issues.addLabels call, whichever signals fire.
C12_AtMostOneLabelAdd ==
    \A k \in DOMAIN fuRun.results :
        fuRun.results[k].issueNumber # 0 => fuRun.results[k].labelCalls <= 1

\* C17: when the channel the issue links is not a thread, the sync step
\* returns an error result for the issue (error not null, messagesSynced = 0)
\* and neither lists nor writes the issue's comments.
C17_NotAThreadIsAnErrorResult ==
    \A k \in DOMAIN fuRun.results :
        LET r == fuRun.results[k] IN
        /\ r.issueNumber # 0
        /\ repo[r.issueNumber].body = "link" /\ ~repo[r.issueNumber].isThread
        /\ r.failed = "none"
        => /\ r.syncResult.error # "null"
           /\ r.syncResult.messagesSynced = 0
           /\ r.syncCalls \cap {"listComments", "write"} = {}

\* C14: the working set fanned out in one batch run is the set of open issues
\* that carry a required status label (and, for the sync workflow, 'discord'),
\* each issue number once: one pipeline instance per issue and run.
C14_WorkingSetIsASet ==
    /\ syncRun.pc = "running"
       => /\ Range(syncRun.work) =
                {i \in DOMAIN repo : /\ repo[i].open /\ "discord" \in labels[i]
                                      /\ labels[i] \cap StatusLabels # {}}
          /\ \A j, k \in DOMAIN syncRun.work : j # k => syncRun.work[j] # syncRun.work[k]
    /\ fuRun.pc = "running"
       => \A j, k \in DOMAIN fuRun.work : j # k => fuRun.work[j] # fuRun.work[k]

PriorTracker(i) ==
    LET page == ListComments(i)
        k == FindSyncTracker(page)
    IN IF k = 0 THEN NoSyncInfo ELSE parseSyncTrackerComment(page[k].body)
\* The body of the first listed comment of issue i with the marker.
PriorBody(i) ==
    LET page == ListComments(i)
    IN page[FindSyncTracker(page)].body
\* An earlier run rendered the tracker of issue i and the thread has no
\* message after its cursor.
RenderedAndQuiet(i) ==
    /\ FindSyncTracker(ListComments(i)) # 0
    /\ PriorBody(i).version = 2
    /\ PriorTracker(i).lastMessageId = Len(thread[i])

TrackerIsV1(i) ==
    /\ FindSyncTracker(ListComments(i)) # 0
    /\ PriorBody(i).json /\ PriorBody(i).version = 1
\* The first listed comment of issue i with the marker is a version-2 tracker.
TrackerIsV2(i) ==
    /\ FindSyncTracker(ListComments(i)) # 0
    /\ PriorBody(i).json /\ PriorBody(i).version = 2
\* The eligible messages of the thread of issue i after message id.
EligibleAfter(i, id) == {m \in EligibleIds(i) : m > id}

C23_LastAuthorIsMostRecent ==
    [][\A k \in DOMAIN syncRun.work :
          LET i == SyncItem(k) IN
          /\ SyncStepTaken(k) /\ SyncResult(k).success
          /\ TrackerIsV2(i)' /\ PriorLog(i)' # <<>>
          => PriorBody(i)'.lastAuthorIsTeamMember =
                Tri(HasTeamRole(thread[i][Last(PriorLog(i)').id].user))]_vars

\* The logs of the version-2 trackers among the comments of issue i.
PersistedLogs(i) ==
    {comments[i][n].body.messages :
        n \in {m \in DOMAIN comments[i] : /\ comments[i][m].body.json
                                            /\ comments[i][m].body.version = 2}}
\* The log has its messages oldest first, by id and by creation time.
OldestFirst(log) ==
    \A m, n \in DOMAIN log :
        m < n => log[m].id < log[n].id /\ log[m].timestamp <= log[n].timestamp

SyncReturned(i) ==
    \E j \in DOMAIN syncRun.work :
        syncRun.work[j] = i /\ j \notin syncRun.todo /\ Settled(syncRun.results[j])

\* C25: the follow-up decision for a Discord-linked issue is taken only after
\* the sync step of that issue has returned, its write done.
C25_FollowUpAfterSyncWrite ==
    [][\A k \in DOMAIN fuRun.work :
          FollowUpStepTaken(k) /\ repo[fuRun.work[k]].body = "link"
          => SyncReturned(fuRun.work[k])]_vars

\* C26: a sync step that returns an error leaves the comments of its issue, the
\* tracker among them, as they were; a successful step writes a log without
\* duplicates that holds the log it read and every eligible message after the
\* cursor it read, those that a failed run before it missed included.
C26_FailedRunIsRetried ==
    [][\A k \in DOMAIN syncRun.work :
          LET i == SyncItem(k) IN
          /\ SyncStepTaken(k) /\ ~SyncResult(k).success
             => comments'[i] = comments[i]
          /\ SyncStepTaken(k) /\ SyncResult(k).success
             => \A n \in Written(i) :
                   LET log == comments'[i][n].body.messages IN
                   /\ NoDuplicateIds(log)
                   /\ IdsOf(log) = IdsOf(PriorLog(i))
                                      \cup EligibleAfter(i, PriorTracker(i).lastMessageId)]_vars

\* C27: every per-issue sync step that has started eventually returns a result
\* and leaves its slot, also when the Discord login was rejected or no bot
\* token is configured.
C27_StartedPipelineReturns ==
    \A k \in Issues :
        [](k \in syncRun.active
             => <>(/\ k \notin syncRun.active
                   /\ k \in DOMAIN syncRun.results /\ Settled(syncRun.results[k])))

\* Several of the listed comments of issue i carry the marker.
SeveralMarkers(i) ==
    Cardinality({n \in DOMAIN ListComments(i) : HasMarker(ListComments(i)[n])}) >= 2

\* C28: on an issue with several comments that carry the marker, a successful
\* sync step writes to the first of them in listing order and to no other
\* comment, and the follow-up step takes its tracker signal from that same
\* first comment.
C28_FirstMarkerIsCanonical ==
    [][/\ \A k \in DOMAIN syncRun.work :
             LET i == SyncItem(k) IN
             SyncStepTaken(k) /\ SyncResult(k).success /\ SeveralMarkers(i)
             => Written(i) \subseteq {FindSyncTracker(ListComments(i))}
       /\ \A k \in DOMAIN fuRun.work :
             LET i == fuRun.work[k] IN
             FollowUpStepTaken(k) /\ fuRun'.results[k].listed /\ SeveralMarkers(i)
             => fuRun'.results[k].tracker =
                   (PriorTracker(i).found /\ PriorTracker(i).lastAuthorIsTeamMember = "false")
      ]_vars

\* The transition is the per-post workflow of item k of the running
\* discordToGithubWorkflow.
PostStepTaken(k) ==
    /\ forum.run.pc = "running" /\ k \in forum.run.todo
    /\ forum'.run.results[k].failed # "pending"
\* The issues that createGithubIssueStep made for post id.
IssuesCreatedFor(id) == {n \in DOMAIN forum.issues : forum.issues[n] = CreatedIssue(id)}

\* C29: for each forum post whose search returns, exactly one of the three
\* branches runs; an issue is created only if the search found no issue for the
\* post id and the post has no 'skip-github' tag, and then it is created,
\* unless the create call rejects; no post gets more than one created issue.
C29_OneIssuePerPost ==
    /\ [][\A k \in DOMAIN forum.run.work :
             LET id == forum.run.work[k]
                 found == Len(SearchIssues(forum.issues, id)) > 0
                 wanted == ~found /\ "skip-github" \notin forum.tags[id]
                 r == forum'.run.results[k]
             IN PostStepTaken(k)
                => /\ r.failed # "search" => Cardinality(r.ran) = 1
                   /\ r.created => wanted
                   /\ wanted /\ r.failed = "none" => r.created
                   /\ forum'.issues =
                         IF r.created THEN Append(forum.issues, CreatedIssue(id))
                         ELSE forum.issues]_vars
    /\ [](\A id \in DOMAIN forum.tags : Cardinality(IssuesCreatedFor(id)) <= 1)
\* A second run finds the issue that the first run created for the post.
C29_Witness ==
    /\ forum.runs = 2
    /\ \E k \in DOMAIN forum.run.work :
          /\ forum.run.results[k].ran = {"has-issue"}
          /\ Cardinality(IssuesCreatedFor(forum.run.work[k])) = 1

\* The text has at position s a URL https://discord.com/channels/<digits>/<digits>
\* whose thread id is the digits from position from to position to.
UrlAt(text, s, from, to) ==
    /\ text[s] = "U"
    /\ from >= s + 3 /\ from <= to /\ to <= Len(text)
    /\ \A p \in (s + 1)..(from - 2) : text[p] \in Digits
    /\ text[from - 1] = "/"
    /\ \A p \in from..to : text[p] \in Digits
    /\ to = Len(text) \/ text[to + 1] \notin Digits
HasUrl(text) == \E s, from, to \in DOMAIN text : UrlAt(text, s, from, to)

\* C30: for a body that is null or empty or holds no URL
\* https://discord.com/channels/<digits>/<digits> the function returns null;
\* for any other body it returns the thread-id digits of the first such URL.
C30_ExtractThreadId ==
    probe.called
    => LET text == probe.body.text IN
       IF probe.body.null \/ ~HasUrl(text) THEN probe.value = <<>>
       ELSE \E s, from, to \in DOMAIN text :
               /\ UrlAt(text, s, from, to)
               /\ \A r \in 1..(s - 1) : ~\E f, t \in DOMAIN text : UrlAt(text, r, f, t)
               /\ probe.value = SubSeq(text, from, to)
\* The body holds two URLs and the function returned the thread id of the first.
C30_Witness ==
    /\ probe.called
    /\ probe.body.text = <<"U", "1", "/", "2", "U", "2", "/", "1">>
    /\ probe.value = <<"2">>

\* C31: every place that classifies a Discord author applies one predicate: a
\* member that both fetchMessages and the sync step classify gets the same
\* answer, and a missing member is not a team member.
C31_OneTeamPredicate ==
    /\ probe.isTeam # "absent" /\ probe.member.null => probe.isTeam = "false"
    /\ probe.isTeam # "absent" /\ probe.lastAuthorIsTeamMember # "absent"
       => probe.isTeam = probe.lastAuthorIsTeamMember

\* C32: the relative-time label of an age in whole minutes: "just now" up to 0,
\* the minutes from 1 to 59, the hours from 60 minutes on, the days from 24
\* hours on, the date from 7 days on; each age has one bucket, and a value of 1
\* is worded in the singular.
C32_RelativeTimeBuckets ==
    probe.called
    => LET m == probe.minutes
           l == probe.label
       IN /\ l.bucket = "now" <=> m <= 0
          /\ l.bucket = "minutes" <=> m \in 1..59
          /\ l.bucket = "hours" <=> m \in 60..(24 * 60 - 1)
          /\ l.bucket = "days" <=> m \in (24 * 60)..(7 * 24 * 60 - 1)
          /\ l.bucket = "date" <=> m >= 7 * 24 * 60
          /\ l.bucket = "minutes" => l.n = m
          /\ l.bucket = "hours" => l.n = m \div 60
          /\ l.bucket = "days" => l.n = m \div (24 * 60)
          /\ l.n = 1 <=> l.text \in {"minute ago", "hour ago", "yesterday"}
          /\ l.n > 1 <=> l.text \in {"minutes ago", "hours ago", "days ago"}
\* The label of a message exactly seven days old has been rendered.
C32_Witness ==
    probe.called /\ probe.minutes = 7 * 24 * 60 /\ probe.label.bucket = "date"

\* The ids of the messages that the log written at position n of issue i has
\* after those of the log the step read.
AppendedIds(i, n) ==
    LET log == comments'[i][n].body.messages IN
    {log[m].id : m \in {p \in DOMAIN log : p > Len(PriorLog(i))}}

\* C33: in every tracker the sync step writes with a non-empty log the cursor
\* is the id of the last message of the log, and the next run fetches after
\* it: no message of a log already persisted on the issue is fetched and
\* appended again.
C33_CursorLogAgreement ==
    [][\A k \in DOMAIN syncRun.work :
          LET i == SyncItem(k) IN
          SyncStepTaken(k) /\ SyncResult(k).success
          => \A n \in Written(i) :
                LET body == comments'[i][n].body IN
                /\ body.messages # <<>> => body.lastMessageId = Last(body.messages).id
                /\ \A log \in PersistedLogs(i) : AppendedIds(i, n) \cap IdsOf(log) = {}]_vars

\* A call of getRepoLabels has completed with a list it fetched.
Fetched(call) == call.pc = "done" /\ ~call.hit

\* C34: once a call of getRepoLabels has completed successfully, every later
\* call returns the list that call cached and sends no request, whatever
\* repository it names; while no call has completed successfully (calls may
\* have failed) the cache is empty.
C34_LabelCache ==
    /\ \A c \in 1..MaxCalls :
          probe.calls[c].hit
          => probe.calls[c].requests = 0 /\ probe.calls[c].returned = probe.first
    /\ (\A c \in 1..MaxCalls : ~Fetched(probe.calls[c])) => probe.cachedLabels.null

\* C35: the follow-up step never throws.  When the listing of the comments
\* rejects it returns needsFollowUp = false, labelAdded = false and the reason
\* 'none'; when the label-add rejects it returns needsFollowUp = true,
\* labelAdded = false and the reason computed from the two checks; in every
\* result labelAdded implies needsFollowUp, and the reason is 'none' exactly
\* when needsFollowUp is false.
C35_FollowUpStepNeverThrows ==
    [][\A k \in DOMAIN fuRun.work :
          FollowUpStepTaken(k)
          => LET r == fuRun'.results[k] IN
             /\ ~r.threw
             /\ ~r.listed
                => ~r.needsFollowUp /\ ~r.labelAdded /\ r.labelReason = "none"
             /\ r.addLabelsCalled /\ ~r.labelAdded
                => /\ r.needsFollowUp
                   /\ r.labelReason = LabelReason(r.github, r.tracker)
                   /\ r.labelReason # "none"
             /\ r.labelAdded => r.needsFollowUp
             /\ r.labelReason = "none" <=> ~r.needsFollowUp]_vars
\* The label-add of a step has rejected, and the listing of another run's step.
C35_Witness ==
    \E k \in DOMAIN fuRun.results :
        /\ k \notin fuRun.todo
        /\ fuRun.results[k].addLabelsCalled /\ ~fuRun.results[k].labelAdded
        /\ fuRun.results[k].needsFollowUp

\* C36: in the batch result of a finished sync run issuesWithThreads and
\* issuesSkipped add up to issuesProcessed and errors is at most
\* issuesWithThreads: a per-issue result that is an error has a linked thread.
C36_ErrorsAreOfLinkedIssues ==
    syncRun.pc = "done"
    => LET sum == SyncSummary(syncRun.results) IN
       /\ sum.issuesWithThreads + sum.issuesSkipped = sum.issuesProcessed
       /\ sum.errors <= sum.issuesWithThreads
       /\ \A k \in DOMAIN syncRun.results :
             ~syncRun.results[k].success
             => syncRun.results[k].hasDiscordThread /\ syncRun.results[k].threadId # 0
\* A finished batch in which every issue with a thread is an error and another
\* issue was skipped.
C36_Witness ==
    /\ syncRun.pc = "done"
    /\ SyncSummary(syncRun.results).issuesSkipped = 1
    /\ SyncSummary(syncRun.results).errors = 1
    /\ SyncSummary(syncRun.results).issuesWithThreads = 1

\* The Discord client promises that the steps of the run hold.
HeldClients == {syncRun.client[k] : k \in DOMAIN syncRun.client} \ {0}

\* C37: however the getDiscordClient calls of the steps of a batch interleave
\* with each other and with the login, createDiscordClient is started at most
\* once in the process and every step gets the same promise.
C37_ClientSingleton ==
    /\ count.clients <= 1
    /\ Cardinality(HeldClients) <= 1
    /\ discordClientPromise = "null" <=> count.clients = 0
\* Two steps in flight have got the promise, the login not yet settled.
C37_Witness ==
    /\ discordClientPromise = "pending"
    /\ \E j, k \in syncRun.active : j # k /\ syncRun.client[j] = 1 /\ syncRun.client[k] = 1

\* The step of the overlapping run r writes (or its write is rejected).
OverlapWriteTaken(r) == overlap[r].pc = "fetched" /\ overlap'[r].pc = "done"
\* The tracker that the step of the overlapping run r read.
ReadTracker(r) ==
    LET page == overlap[r].page
        k == FindSyncTracker(page)
    IN IF k = 0 THEN NoSyncInfo ELSE parseSyncTrackerComment(page[k].body)

\* C38: when two overlapping runs work on the same issue and the tracker they
\* read parses, every tracker that either of them writes has a log of pairwise
\* distinct message ids, oldest first, in whatever order their reads and
\* writes come; and so has every tracker on the issue at any time.
C38_OverlapKeepsLogsDistinct ==
    /\ [](\A i \in Issues : \A log \in PersistedLogs(i) :
             NoDuplicateIds(log) /\ OldestFirst(log))
    /\ [][\A r \in OverlapRuns :
             OverlapWriteTaken(r) /\ ReadTracker(r).found
             => \A n \in Written(overlap[r].issue) :
                   LET body == comments'[overlap[r].issue][n].body IN
                   /\ NoDuplicateIds(body.messages) /\ OldestFirst(body.messages)
                   /\ body.messages # <<>> /\ body.lastMessageId = Last(body.messages).id]_vars
\* Both runs read the tracker with its log before either wrote, both have
\* written, and the write that came last took a message out of the log.
C38_Witness ==
    /\ \A r \in OverlapRuns :
          /\ overlap[r].pc = "done" /\ overlap[r].success /\ overlap[r].issue = 1
          /\ ReadTracker(r).found /\ ReadTracker(r).messages # <<>>
    /\ overlap["second"].page = overlap["third"].page
    /\ overlap["second"].write.body # overlap["third"].write.body
    /\ \E r \in OverlapRuns : \E log \in PersistedLogs(1) :
          Len(log) < Len(overlap[r].write.body.messages)

\* The log of the first comment of issue i with the marker, after the transition.
CanonicalLogAfter(i) ==
    LET cs == comments'[i]
        marked == {n \in DOMAIN cs : cs[n].body.marker}
    IN IF marked = {} THEN <<>> ELSE cs[MinOf(marked)].body.messages
\* The two overlapping runs have worked on issue i and have returned, each
\* with its write done.
OverlapOver(i) ==
    \A r \in OverlapRuns : overlap[r].pc = "done" /\ overlap[r].issue = i /\ overlap[r].success

\* C39: once two overlapping runs on an issue have finished, in whatever order
\* their reads and writes came, the step of one further successful run, which
\* overlaps with none, leaves the log of the issue's first tracker comment
\* with every eligible message of the thread, each once.
C39_ConvergenceAfterOverlap ==
    [][\A k \in DOMAIN syncRun.work :
          LET i == syncRun.work[k] IN
          SyncStepTaken(k) /\ syncRun'.results[k].success /\ OverlapOver(i)
          => /\ IdsOf(CanonicalLogAfter(i)) = EligibleIds(i)
             /\ NoDuplicateIds(CanonicalLogAfter(i))]_vars

\* The comments of issue i that relay the message id of its thread.
RelaysOf(i, id) ==
    {n \in DOMAIN comments[i] : /\ ~comments[i][n].body.marker
                                /\ comments[i][n].body.messages # <<>>
                                /\ comments[i][n].body.messages[1].id = id}
\* The step of item k of the earlier workflow has returned.
RelayStepTaken(k) == k \in fuRun.todo /\ k \notin fuRun'.todo

\* C40: over the runs of the earlier workflow, a run that fails among its
\* createComment calls or at its tracker write included, every message of the
\* thread has at most one comment on the issue that relays it; and a tracker
\* that a step writes has the id of the last message the step relayed.
C40_RelayedAtMostOnce ==
    /\ [](\A i \in Issues : \A id \in DOMAIN thread[i] : Cardinality(RelaysOf(i, id)) <= 1)
    /\ [][\A k \in DOMAIN fuRun.work :
             LET i == fuRun.work[k] IN
             RelayStepTaken(k)
             => \A n \in Written(i) :
                   comments'[i][n].body.marker
                   => comments'[i][n].body.lastMessageId = LastRelayed(i)']_vars

====
